---- MODULE Spec2Model ----
(***************************************************************************)
(* Resolution engine of the werewolf game: GameState, the night and day    *)
(* resolvers, the victory check and the game loop of GameManager.          *)
(*                                                                         *)
(* Spec         setup_game on a roster and start_game with LLMPlayer       *)
(*              players; the inputs are the roster and the replies of the  *)
(*              language model, parsed by                                  *)
(*              LLMPlayer._seer_action, _werewolf_action, _witch_action    *)
(*              and vote_for_player                                        *)
(* SpecNight    one execute_night_phase on a GameState built by hand, as   *)
(*              test_fixes.py does; the inputs are the action dicts that   *)
(*              make_night_action returns                                  *)
(* SpecVictory  check_victory_conditions called twice on a snapshot        *)
(* SpecPack     one _werewolf_phase on a GameState built by hand with a    *)
(*              pack of five wolves; the inputs are action dicts           *)
(* SpecDay      one execute_day_phase on a GameState built by hand; the    *)
(*              inputs are the ids vote_for_player returns                 *)
(* SpecSpeech   record_day_speech, add_last_words and kill_player called   *)
(*              on a GameState built by hand                               *)
(* SpecGather   one _werewolf_phase, one make_night_action at a time       *)
(* SpecGame     setup_game and start_game on a roster in another order,    *)
(*              the round counter left at 0 or set by hand                 *)
(***************************************************************************)
EXTENDS Integers, Sequences, FiniteSets, TLC

\* ---------------------------------------------------------------- bounds
\* a reply of the language model names an id in 0..MaxNamedId or an unknown id
MaxNamedId == 4
\* unknown ids (beyond the roster) a decision may name
ExtraIds == 1
\* the game loop is not followed beyond this round
RoundCap == 12

\* ------------------------------------------------------------- constants
\* GameManager.setup_game: the roster size that is accepted
RosterSize == 10
\* GameState.__init__: self.max_rounds
max_rounds == 10
\* Python None of the Optional[int] fields (player ids start at 1)
None == 0

ALIVE == "alive"
DEAD == "dead"
WEREWOLF == "werewolf"
SEER == "seer"
WITCH == "witch"
HUNTER == "hunter"
VILLAGER == "villager"

\* expected_counts of setup_game
expected_counts ==
    [werewolf |-> 3, seer |-> 1, witch |-> 1, hunter |-> 1, villager |-> 4]

\* the sample configuration written by main.create_sample_config
SampleConfig ==
    <<WEREWOLF, WEREWOLF, WEREWOLF, SEER, WITCH, HUNTER,
      VILLAGER, VILLAGER, VILLAGER, VILLAGER>>

\* a roster of the wrong size and one with wrong role counts
ShortConfig ==
    <<WEREWOLF, WEREWOLF, WEREWOLF, SEER, WITCH, HUNTER,
      VILLAGER, VILLAGER, VILLAGER>>

WolfHeavyConfig ==
    <<WEREWOLF, WEREWOLF, WEREWOLF, WEREWOLF, WITCH, HUNTER,
      VILLAGER, VILLAGER, VILLAGER, SEER>>

Configs == {SampleConfig, ShortConfig, WolfHeavyConfig}

\* the keys setup_game reads from an entry of the roster
ConfigKeys == {"name", "role", "api_url", "api_key"}

\* a roster of complete entries, and a roster with a key of one entry missing
Complete(cfg) ==
    [i \in DOMAIN cfg |-> [role |-> cfg[i], keys |-> ConfigKeys]]

Without(config, i, k) == [config EXCEPT ![i].keys = @ \ {k}]

\* the rosters handed to setup_game
RosterInputs ==
    {Complete(cfg) : cfg \in Configs}
        \cup {Without(Complete(SampleConfig), i, k) :
                 i \in {1, 4, RosterSize}, k \in ConfigKeys}
        \cup {Without(Complete(ShortConfig), 2, "name")}

\* the players of test_fixes.create_test_game
TestRoster == <<VILLAGER, WEREWOLF, SEER, WITCH, HUNTER>>

\* players added with GameState.add_player as create_test_game does: five
\* wolves, so that a tally of 2, 2 and 1 can be cast on three villagers
PackRoster ==
    <<VILLAGER, WEREWOLF, WEREWOLF, VILLAGER, WEREWOLF, WEREWOLF, VILLAGER,
      WEREWOLF>>

VARIABLES
    players_config,     \* the roster handed to GameManager.setup_game
    role,               \* Player.role, by id (creation order)
    team,               \* Player.team
    status,             \* Player.status
    witch_potions,      \* Player.witch_potions
    hunter_can_shoot,   \* Player.hunter_can_shoot
    seer_checks,        \* Player.seer_checks: checked id -> result
    current_round,      \* GameState.current_round
    phase,              \* GameState.phase
    vote_records,       \* GameState.vote_records
    speech_records,     \* SpeechHistoryTracker._speech_records of
                        \* GameState.speech_history_tracker
    day_speeches,       \* GameState.day_speeches: round -> speech records
    last_words_context, \* GameState.last_words_context
    call_result,        \* what the last record_day_speech, add_last_words
                        \* or kill_player call returned
    seer_check_result,  \* GameState.seer_check_result
    wolf_kill_target,   \* GameState.wolf_kill_target
    witch_heal_used,    \* GameState.witch_heal_used
    witch_poison_used,  \* GameState.witch_poison_used
    deaths_this_night,  \* GameState.deaths_this_night
    night_events,       \* NightPhase.night_events
    witch_action,       \* the action returned to _witch_phase this night
    night_results,      \* the dict returned by execute_night_phase
    day_results,        \* the dict returned by execute_day_phase
    victory_check,      \* the result of the last check_victory_conditions
    second_check,       \* the result of a repeated check_victory_conditions
    game_result,        \* the dict returned by _end_game
    pc,                 \* position in setup_game / start_game
    night_pre,          \* history: statuses and potions when the night began
    wolf_step,          \* history: the proposals of the werewolf step just
                        \* taken and the target a second draw gave for them
    day_step,           \* history: the living players at the start of the
                        \* day just run and what their vote_for_player
                        \* calls returned
    trace               \* history: the steps start_game has executed

playerVars == <<role, team, status, witch_potions, hunter_can_shoot,
                seer_checks>>
scratchVars == <<wolf_kill_target, witch_heal_used, witch_poison_used,
                 deaths_this_night>>
gameStateVars == <<playerVars, current_round, phase, vote_records,
                   scratchVars>>
contextVars == <<speech_records, day_speeches, last_words_context,
                 call_result, seer_check_result>>
localVars == <<night_events, witch_action, night_results, day_results,
               victory_check, second_check, game_result>>
vars == <<players_config, gameStateVars, contextVars, localVars, pc,
          night_pre, wolf_step, day_step, trace>>

\* ------------------------------------------------------------- helpers
Range(s) == {s[i] : i \in DOMAIN s}

\* list(set(xs)) followed by sort()
SortedSeq(S) ==
    [i \in 1..Cardinality(S) |->
        CHOOSE x \in S : Cardinality({y \in S : y <= x}) = i]

\* roles.count(r)
CountRole(cfg, r) == Cardinality({i \in DOMAIN cfg : cfg[i] = r})

\* ------------------------------------------------------- GameState reads
PlayerIds == DOMAIN role

\* ids an action dict handed to a phase may name (0: a missing or zero target)
InputIds == 0..(Len(role) + ExtraIds)

\* ids a reply of the language model may name
ResponseIds == (0..MaxNamedId) \cup ((RosterSize + 1)..(RosterSize + ExtraIds))

player_exists(id) == id \in PlayerIds

is_alive(p) == status[p] = ALIVE

\* GameState.players: the ids in creation order
players == [i \in DOMAIN role |-> i]

get_alive_players == SelectSeq(players, is_alive)

get_players_by_role(r) == SelectSeq(players, LAMBDA p : role[p] = r)

get_alive_players_by_role(r) ==
    SelectSeq(players, LAMBDA p : role[p] = r /\ is_alive(p))

get_alive_wolf_players == get_alive_players_by_role(WEREWOLF)

get_alive_villager_players ==
    SelectSeq(players, LAMBDA p : team[p] = VILLAGER /\ is_alive(p))

NoVictory == [game_over |-> FALSE, winner |-> "none", reason |-> "none"]

\* ------------------------------------------- GameState.check_victory_conditions
check_victory_conditions_gt ==
    LET alive_wolves == Len(get_alive_wolf_players)
        alive_villagers == Len(get_alive_villager_players)
        witch == get_players_by_role(WITCH)
        witch_potions_used ==
            /\ ~witch_potions[witch[1]].heal
            /\ ~witch_potions[witch[1]].poison
    IN  IF alive_wolves = 0
        THEN [game_over |-> TRUE, winner |-> "villagers",
              reason |-> "all werewolves eliminated"]
        ELSE IF alive_wolves > alive_villagers
        THEN [game_over |-> TRUE, winner |-> "werewolves",
              reason |-> "werewolves >= villagers"]
        ELSE IF /\ witch # <<>>
                /\ ~is_alive(witch[1])
                /\ witch_potions_used
                /\ alive_wolves = 1
                /\ alive_villagers = 1
        THEN [game_over |-> TRUE, winner |-> "werewolves",
              reason |-> "witch exhausted 1v1"]
        ELSE IF current_round >= max_rounds
        THEN [game_over |-> TRUE, winner |-> "draw",
              reason |-> "max rounds reached"]
        ELSE NoVictory

check_victory_conditions_never_over == NoVictory

check_victory_conditions_rounds_first ==
    LET alive_wolves == Len(get_alive_wolf_players)
        alive_villagers == Len(get_alive_villager_players)
    IN  IF current_round >= max_rounds
        THEN [game_over |-> TRUE, winner |-> "draw",
              reason |-> "max rounds reached"]
        ELSE IF alive_wolves = 0
        THEN [game_over |-> TRUE, winner |-> "villagers",
              reason |-> "all werewolves eliminated"]
        ELSE IF alive_wolves >= alive_villagers
        THEN [game_over |-> TRUE, winner |-> "werewolves",
              reason |-> "werewolves >= villagers"]
        ELSE NoVictory

\* variant: the round limit is reached one round later
check_victory_conditions_limit_exceeded ==
    LET alive_wolves == Len(get_alive_wolf_players)
        alive_villagers == Len(get_alive_villager_players)
    IN  IF alive_wolves = 0
        THEN [game_over |-> TRUE, winner |-> "villagers",
              reason |-> "all werewolves eliminated"]
        ELSE IF alive_wolves >= alive_villagers
        THEN [game_over |-> TRUE, winner |-> "werewolves",
              reason |-> "werewolves >= villagers"]
        ELSE IF current_round > max_rounds
        THEN [game_over |-> TRUE, winner |-> "draw",
              reason |-> "max rounds reached"]
        ELSE NoVictory

check_victory_conditions ==
    LET alive_wolves == Len(get_alive_wolf_players)
        alive_villagers == Len(get_alive_villager_players)
        witch == get_players_by_role(WITCH)
        witch_potions_used ==
            /\ ~witch_potions[witch[1]].heal
            /\ ~witch_potions[witch[1]].poison
    IN  IF alive_wolves = 0
        THEN [game_over |-> TRUE, winner |-> "villagers",
              reason |-> "all werewolves eliminated"]
        ELSE IF alive_wolves >= alive_villagers
        THEN [game_over |-> TRUE, winner |-> "werewolves",
              reason |-> "werewolves >= villagers"]
        ELSE IF /\ witch # <<>>
                /\ ~is_alive(witch[1])
                /\ witch_potions_used
                /\ alive_wolves = 1
                /\ alive_villagers = 1
        THEN [game_over |-> TRUE, winner |-> "werewolves",
              reason |-> "witch exhausted 1v1"]
        ELSE IF current_round >= max_rounds
        THEN [game_over |-> TRUE, winner |-> "draw",
              reason |-> "max rounds reached"]
        ELSE NoVictory

\* what a call of check_victory_conditions writes to GameState: nothing
VictoryCallFrame_marks_ended ==
    /\ phase' = IF check_victory_conditions.game_over THEN "ended" ELSE phase
    /\ UNCHANGED <<playerVars, current_round, vote_records, scratchVars>>

VictoryCallFrame == UNCHANGED gameStateVars

\* ------------------------------------------------------------ construction
NoAction == [action |-> "", target |-> None]

NoNightResults ==
    [round |-> 0, deaths |-> <<>>, wolf_kill_target |-> None,
     witch_heal_used |-> FALSE, witch_poison_used |-> FALSE]

\* the dict returned by execute_day_phase before any day has run
NoDayResults ==
    [night_deaths |-> <<>>, day_deaths |-> <<>>, last_words |-> <<>>,
     discussion |-> <<>>, votes |-> <<>>, eliminated |-> None,
     hunter_shot |-> [type |-> "none", hunter |-> None, target |-> None,
                      successful |-> FALSE]]

NoGameResult == [winner |-> "none", reason |-> "none", phase |-> "none"]

NoNightPre == [status |-> <<>>, witch_potions |-> <<>>, seer_checks |-> <<>>]

NoWolfStep == [proposals |-> <<>>, rerun |-> None]

NoDayStep == [alive_players |-> <<>>, ballots |-> <<>>, shot |-> None]

\* GameState.__init__, NightPhase.__init__, DayPhase.__init__
InitGameState ==
    /\ role = <<>>
    /\ team = <<>>
    /\ status = <<>>
    /\ witch_potions = <<>>
    /\ hunter_can_shoot = <<>>
    /\ seer_checks = <<>>
    /\ current_round = 0
    /\ phase = "setup"
    /\ vote_records = <<>>
    /\ wolf_kill_target = None
    /\ witch_heal_used = FALSE
    /\ witch_poison_used = FALSE
    /\ deaths_this_night = <<>>

\* GameState.__init__: the speech tracker, the legacy speech log and the
\* last-words buffer start empty
InitContext ==
    /\ speech_records = <<>>
    /\ day_speeches = <<>>
    /\ last_words_context = <<>>
    /\ call_result = "none"
    /\ seer_check_result = None

InitLocals ==
    /\ night_events = <<>>
    /\ witch_action = NoAction
    /\ night_results = NoNightResults
    /\ day_results = NoDayResults
    /\ victory_check = NoVictory
    /\ second_check = NoVictory
    /\ game_result = NoGameResult
    /\ night_pre = NoNightPre
    /\ wolf_step = NoWolfStep
    /\ day_step = NoDayStep
    /\ trace = <<>>

Init ==
    /\ players_config \in RosterInputs
    /\ InitGameState
    /\ InitContext
    /\ InitLocals
    /\ pc = "setup"

\* Player.__init__: the team follows the role; as a variant the field
\* defaults to the village team
team_of_village_by_default(r) == VILLAGER

team_of(r) == IF r = WEREWOLF THEN WEREWOLF ELSE VILLAGER

\* the validation of setup_game; as a variant only the size is checked
roster_accepted_by_size(cfg) == Len(cfg) = RosterSize

roster_accepted(cfg) ==
    /\ Len(cfg) = RosterSize
    /\ \A r \in DOMAIN expected_counts : CountRole(cfg, r) = expected_counts[r]

\* the players setup_game adds for an accepted roster
AddPlayers(cfg) ==
    /\ role' = cfg
    /\ team' = [i \in DOMAIN cfg |-> team_of(cfg[i])]
    /\ status' = [i \in DOMAIN cfg |-> ALIVE]
    /\ witch_potions' = [i \in DOMAIN cfg |-> [heal |-> TRUE, poison |-> TRUE]]
    /\ hunter_can_shoot' = [i \in DOMAIN cfg |-> TRUE]
    /\ seer_checks' = [i \in DOMAIN cfg |-> <<>>]

\* the roles setup_game counts: p["role"] of every entry
roles_of(config) == [i \in DOMAIN config |-> config[i].role]

\* the checks of setup_game before any player is created: the size, the
\* role of every entry, the counts
config_validated(config) ==
    /\ Len(config) = RosterSize
    /\ \A i \in DOMAIN config : "role" \in config[i].keys
    /\ roster_accepted(roles_of(config))

\* the number of players created before setup_game returns: all of them, or
\* those ahead of the first entry whose name, api_url or api_key is missing;
\* as a variant the entries are read before any player is added
players_created_all_or_none(config) ==
    IF /\ config_validated(config)
       /\ \A i \in DOMAIN config : config[i].keys = ConfigKeys
    THEN Len(config) ELSE 0

players_created(config) ==
    IF ~config_validated(config) THEN 0
    ELSE IF \A i \in DOMAIN config : config[i].keys = ConfigKeys
    THEN Len(config)
    ELSE (CHOOSE i \in DOMAIN config :
              /\ config[i].keys # ConfigKeys
              /\ \A j \in 1..(i - 1) : config[j].keys = ConfigKeys) - 1

\* the value setup_game returns
setup_game_returns(config) ==
    /\ config_validated(config)
    /\ \A i \in DOMAIN config : config[i].keys = ConfigKeys

\* GameManager.setup_game, then main() starts the game or returns
SetupGame ==
    /\ pc = "setup"
    /\ \E created \in {players_created(players_config)} :
          IF created = 0
          THEN UNCHANGED playerVars
          ELSE AddPlayers(SubSeq(roles_of(players_config), 1, created))
    /\ pc' = IF setup_game_returns(players_config) THEN "loop"
                                                   ELSE "setup_failed"
    /\ UNCHANGED <<players_config, contextVars, current_round, vote_records, phase,
                   scratchVars, localVars, night_pre, wolf_step, day_step,
                   trace>>

\* ---------------------------------------------------- GameManager.start_game
\* self.game_state.current_round += 1 at the top of the loop; as a variant
\* GameState.next_round is called there as well
round_at_loop_top_and_next_round == current_round + 2

round_at_loop_top == current_round + 1

\* top of the loop: the round is incremented and the night is entered.
\* The results of the previous iteration are not read again.
BeginRound ==
    /\ pc = "loop"
    /\ current_round < RoundCap
    /\ current_round' = round_at_loop_top
    /\ phase' = "night"
    /\ pc' = "night_clear"
    /\ UNCHANGED <<players_config, contextVars>>
    /\ trace' = Append(trace, "round_increment")
    /\ night_results' = NoNightResults
    /\ day_results' = NoDayResults
    /\ victory_check' = NoVictory
    /\ night_pre' = NoNightPre
    /\ UNCHANGED <<wolf_step, day_step>>
    /\ UNCHANGED <<playerVars, vote_records, scratchVars, night_events,
                   witch_action, second_check, game_result>>

\* ----------------------------------------------- NightPhase.execute_night_phase
\* the scratchpad is cleared before any role acts; as a variant the kill
\* target of the night before is left in place
NightClear_keeps_target ==
    /\ pc = "night_clear"
    /\ night_events' = <<>>
    /\ seer_check_result' = None
    /\ witch_heal_used' = FALSE
    /\ witch_poison_used' = FALSE
    /\ deaths_this_night' = <<>>
    /\ witch_action' = NoAction
    /\ night_pre' = [status |-> status, witch_potions |-> witch_potions,
                     seer_checks |-> seer_checks]
    /\ pc' = "seer"
    /\ UNCHANGED <<players_config, speech_records, day_speeches,
                   last_words_context, call_result, wolf_kill_target,
                   wolf_step, day_step>>
    /\ UNCHANGED <<playerVars, current_round, vote_records, phase, night_results,
                   day_results, victory_check, second_check, game_result,
                   trace>>

NightClear ==
    /\ pc = "night_clear"
    /\ night_events' = <<>>
    /\ wolf_kill_target' = None
    /\ seer_check_result' = None
    /\ witch_heal_used' = FALSE
    /\ witch_poison_used' = FALSE
    /\ deaths_this_night' = <<>>
    /\ witch_action' = NoAction
    /\ night_pre' = [status |-> status, witch_potions |-> witch_potions,
                     seer_checks |-> seer_checks]
    /\ UNCHANGED <<wolf_step, day_step>>
    /\ pc' = "seer"
    /\ UNCHANGED <<players_config, speech_records, day_speeches,
                   last_words_context, call_result>>
    /\ UNCHANGED <<playerVars, current_round, vote_records, phase, night_results,
                   day_results, victory_check, second_check, game_result,
                   trace>>

\* MockLLMPlayer.make_night_action: the action dict is handed over as it is
mock_action(action) == action

\* the classes of players: LLMPlayer and the MockLLMPlayer of test_fixes.py
LLMPlayer == "LLMPlayer"
MockLLMPlayer == "MockLLMPlayer"

\* the two results of a check, written "狼人" and "好人" in the source
IS_WEREWOLF == "is_werewolf"
IS_GOOD == "is_good"

\* unchecked_players of _seer_phase and of _get_seer_context: the living
\* players other than the seer that are not in the seer's check map
unchecked_players(seer) ==
    SelectSeq(get_alive_players,
              LAMBDA p : p # seer /\ p \notin DOMAIN seer_checks[seer])

\* what the seer's make_night_action may return to the phase
SeerActions ==
    {[action |-> "check", target |-> t] : t \in InputIds} \cup {NoAction}

\* a reply to the seer prompt: a CHECK line with a number, or none
SeerResponses ==
    {[line |-> "CHECK", number |-> n] : n \in ResponseIds}
        \cup {[line |-> "", number |-> 0]}

\* LLMPlayer._seer_action: the named target if it is an unchecked living
\* player, else the first unchecked living player; as a variant any known
\* player that is named is taken
seer_action_any_known_player(seer, response) ==
    LET display_targets == unchecked_players(seer)
    IN  IF display_targets = <<>> THEN [action |-> "none", target |-> None]
        ELSE IF /\ response.line = "CHECK"
                /\ player_exists(response.number)
        THEN [action |-> "check", target |-> response.number]
        ELSE [action |-> "check", target |-> display_targets[1]]

seer_action(seer, response) ==
    LET display_targets == unchecked_players(seer)
    IN  IF display_targets = <<>> THEN [action |-> "none", target |-> None]
        ELSE IF /\ response.line = "CHECK"
                /\ response.number \in Range(display_targets)
        THEN [action |-> "check", target |-> response.number]
        ELSE [action |-> "check", target |-> display_targets[1]]

\* what a seer of a class is given: a reply to parse, or its action dict
SeerInputs(class) ==
    IF class = MockLLMPlayer THEN SeerActions ELSE SeerResponses

\* make_night_action of a seer of a class
seer_make_night_action(class, seer, input) ==
    IF class = MockLLMPlayer THEN mock_action(input)
    ELSE seer_action(seer, input)

\* the actions the seer of a class may return to _seer_phase
seer_actions(class, seer) ==
    {seer_make_night_action(class, seer, input) : input \in SeerInputs(class)}

\* result of _seer_phase: werewolf exactly for the role werewolf; as a
\* variant every role but the plain villager is reported
seer_result_any_special_role(target) ==
    IF role[target] # VILLAGER THEN IS_WEREWOLF ELSE IS_GOOD

seer_result(target) ==
    IF role[target] = WEREWOLF THEN IS_WEREWOLF ELSE IS_GOOD

\* seer.seer_checks[target_id] = result
checks_with(checks, target, result) ==
    [t \in (DOMAIN checks) \cup {target} |->
        IF t = target THEN result ELSE checks[t]]

\* step 1 of the night: the seer's check
SeerPhase(class) ==
    /\ pc = "seer"
    /\ LET seers == get_alive_players_by_role(SEER)
       IN  IF seers = <<>>
           THEN UNCHANGED <<seer_checks, night_events>>
           ELSE LET seer == seers[1]
                IN  IF unchecked_players(seer) = <<>>
                    THEN UNCHANGED <<seer_checks, night_events>>
                    ELSE \E action \in seer_actions(class, seer) :
                           IF /\ action.action = "check"
                              /\ player_exists(action.target)
                           THEN /\ seer_checks' =
                                     [seer_checks EXCEPT ![seer] =
                                         checks_with(@, action.target,
                                             seer_result(action.target))]
                                /\ night_events' = Append(night_events,
                                     [type |-> "seer_check", player |-> seer,
                                      target |-> action.target])
                           ELSE UNCHANGED <<seer_checks, night_events>>
    /\ pc' = "werewolf"
    /\ UNCHANGED <<players_config, contextVars>>
    /\ UNCHANGED <<role, team, status, witch_potions, hunter_can_shoot,
                   current_round, vote_records, phase, scratchVars, witch_action,
                   night_results, day_results, victory_check, second_check,
                   game_result, night_pre, wolf_step, day_step, trace>>

\* available_targets of _werewolf_phase: the living players that are no wolves
available_targets ==
    SelectSeq(get_alive_players,
              LAMBDA p : p \notin Range(get_alive_wolf_players))

\* what a werewolf's make_night_action may return to the phase
WolfActions ==
    {[action |-> "kill", target |-> t] : t \in InputIds} \cup {NoAction}

\* a reply to the werewolf prompt: a KILL line with a number, or none
WolfResponses ==
    {[line |-> "KILL", number |-> n] : n \in ResponseIds}
        \cup {[line |-> "", number |-> 0]}

\* LLMPlayer._werewolf_action: the named target if it is a living non-wolf,
\* else the first living non-wolf
werewolf_action(response) ==
    LET non_wolf_players == available_targets
    IN  IF non_wolf_players = <<>> THEN NoAction
        ELSE IF /\ response.line = "KILL"
                /\ response.number \in Range(non_wolf_players)
        THEN [action |-> "kill", target |-> response.number]
        ELSE [action |-> "kill", target |-> non_wolf_players[1]]

\* what a werewolf of a class is given: a reply to parse, or its action dict
WolfInputs(class) ==
    IF class = MockLLMPlayer THEN WolfActions ELSE WolfResponses

\* make_night_action of a werewolf of a class
wolf_make_night_action(class, input) ==
    IF class = MockLLMPlayer THEN mock_action(input) ELSE werewolf_action(input)

\* the proposals the living wolves of a class may make, one for each wolf
wolf_proposals(class) ==
    [Range(get_alive_wolf_players) ->
        {wolf_make_night_action(class, input) : input \in WolfInputs(class)}]

\* wolf_votes: the wolves whose proposal names an available target
wolf_votes(proposals) ==
    {w \in DOMAIN proposals :
        /\ proposals[w].action = "kill"
        /\ proposals[w].target \in Range(available_targets)}

\* the targets random.choice may return in _werewolf_phase; as variants the
\* choice is made among all voted targets, and a proposal that names no
\* available target is counted for the first available target
wolf_final_targets_any_voted(proposals) ==
    LET voters == wolf_votes(proposals)
    IN  IF voters # {}
        THEN {proposals[w].target : w \in voters}
        ELSE Range(available_targets)

wolf_final_targets_default_counted(proposals) ==
    LET voters == wolf_votes(proposals)
        first == available_targets[1]
        votes == [w \in DOMAIN proposals |->
                     IF w \in voters THEN proposals[w].target ELSE first]
        vote_count(t) == Cardinality({w \in DOMAIN votes : votes[w] = t})
        voted == Range(votes)
    IN  IF available_targets = <<>> THEN {}
        ELSE {t \in voted : \A u \in voted : vote_count(u) <= vote_count(t)}

wolf_final_targets(proposals) ==
    LET voters == wolf_votes(proposals)
        vote_count(t) == Cardinality({w \in voters : proposals[w].target = t})
        voted == {proposals[w].target : w \in voters}
    IN  IF voters # {}
        THEN {t \in voted : \A u \in voted : vote_count(u) <= vote_count(t)}
        ELSE Range(available_targets)

\* step 2 of the night: each living wolf's make_night_action gives a
\* proposal, the tally picks the kill target. wolf_step keeps the proposals
\* and what a second random.choice on the same list returned.
WerewolfPhase(class) ==
    /\ pc = "werewolf"
    /\ IF get_alive_wolf_players = <<>>
       THEN UNCHANGED <<night_events, wolf_kill_target, wolf_step>>
       ELSE \E proposals \in wolf_proposals(class) :
            \E targets \in {wolf_final_targets(proposals)} :
              IF targets = {}
              THEN /\ UNCHANGED <<night_events, wolf_kill_target>>
                   /\ wolf_step' = [proposals |-> proposals, rerun |-> None]
              ELSE \E final_target \in targets : \E rerun \in targets :
                     /\ night_events' = Append(night_events,
                           [type |-> "wolf_kill", player |-> None,
                            target |-> final_target])
                     /\ wolf_kill_target' = final_target
                     /\ wolf_step' = [proposals |-> proposals,
                                      rerun |-> rerun]
    /\ pc' = "witch"
    /\ UNCHANGED <<players_config, contextVars>>
    /\ UNCHANGED <<playerVars, current_round, vote_records, phase,
                   witch_heal_used, witch_poison_used, deaths_this_night,
                   witch_action, night_results, day_results, victory_check,
                   second_check, game_result, night_pre, day_step, trace>>

\* what the witch's make_night_action may return to the phase
WitchActions ==
    {[action |-> k, target |-> t] : k \in {"heal", "poison"}, t \in InputIds}
        \cup {[action |-> "none", target |-> None], NoAction}

\* a reply to the witch prompt: the ACTION word and the TARGET number (0: none)
WitchResponses ==
    {[action |-> k, target |-> t] : k \in {"heal", "poison"}, t \in ResponseIds}
        \cup {[action |-> "none", target |-> 0], [action |-> "", target |-> 0]}

\* LLMPlayer._witch_action: heal names the wolves' target, poison a living
\* player other than the witch, anything else is "none"
llm_witch_action(witch, response) ==
    LET killed_player == wolf_kill_target
        display_targets == {p \in Range(get_alive_players) : p # witch}
    IN  IF /\ response.action = "heal"
           /\ killed_player # None
           /\ witch_potions[witch].heal
        THEN [action |-> "heal", target |-> killed_player]
        ELSE IF /\ response.action = "poison"
                /\ response.target # 0
                /\ witch_potions[witch].poison
                /\ response.target \in display_targets
                /\ response.target # witch
        THEN [action |-> "poison", target |-> response.target]
        ELSE [action |-> "none", target |-> None]

\* what the witch of a class is given: a reply to parse, or her action dict
WitchInputs(class) ==
    IF class = MockLLMPlayer THEN WitchActions ELSE WitchResponses

\* make_night_action of the witch of a class
witch_make_night_action(class, witch, input) ==
    IF class = MockLLMPlayer THEN mock_action(input)
                             ELSE llm_witch_action(witch, input)

\* the actions the witch of a class may return to _witch_phase
witch_actions(class, witch) ==
    {witch_make_night_action(class, witch, input) : input \in WitchInputs(class)}

\* the heal branch of _witch_phase takes effect
heal_accepted_any_target(witch, action) ==
    /\ action.action = "heal"
    /\ action.target # None
    /\ wolf_kill_target # None
    /\ witch_potions[witch].heal

heal_accepted(witch, action) ==
    /\ action.action = "heal"
    /\ action.target # None
    /\ wolf_kill_target # None
    /\ action.target = wolf_kill_target
    /\ witch_potions[witch].heal

\* the poison branch of _witch_phase takes effect
poison_accepted(witch, action) ==
    /\ action.action = "poison"
    /\ player_exists(action.target)
    /\ is_alive(action.target)
    /\ witch_potions[witch].poison

\* witch.witch_potions["heal"] = False of the heal branch; as a variant the
\* whole stock is emptied
potions_after_heal_empties_stock(witch) ==
    [witch_potions EXCEPT ![witch] = [heal |-> FALSE, poison |-> FALSE]]

potions_after_heal(witch) ==
    [witch_potions EXCEPT ![witch].heal = FALSE]

\* witch.witch_potions["poison"] = False of the poison branch; as a variant
\* the stock is rebuilt from the default with the poison taken out
potions_after_poison_from_default(witch) ==
    [witch_potions EXCEPT ![witch] = [heal |-> TRUE, poison |-> FALSE]]

potions_after_poison(witch) ==
    [witch_potions EXCEPT ![witch].poison = FALSE]

\* step 3 of the night: the witch's decision (the record of the werewolf
\* step is dropped)
WitchPhase(class) ==
    /\ pc = "witch"
    /\ wolf_step' = NoWolfStep
    /\ UNCHANGED day_step
    /\ LET witches == get_alive_players_by_role(WITCH)
       IN  IF witches = <<>>
           THEN UNCHANGED <<witch_potions, witch_heal_used, witch_poison_used,
                            night_events, witch_action>>
           ELSE LET witch == witches[1]
                IN  \E action \in witch_actions(class, witch) :
                      /\ witch_action' = action
                      /\ IF heal_accepted(witch, action)
                         THEN /\ witch_potions' = potions_after_heal(witch)
                              /\ witch_heal_used' = TRUE
                              /\ night_events' = Append(night_events,
                                   [type |-> "witch_heal", player |-> witch,
                                    target |-> action.target])
                              /\ UNCHANGED witch_poison_used
                         ELSE IF poison_accepted(witch, action)
                         THEN /\ witch_potions' = potions_after_poison(witch)
                              /\ witch_poison_used' = TRUE
                              /\ night_events' = Append(night_events,
                                   [type |-> "witch_poison", player |-> witch,
                                    target |-> action.target])
                              /\ UNCHANGED witch_heal_used
                         ELSE IF action.action = "none"
                         THEN /\ night_events' = Append(night_events,
                                   [type |-> "witch_no_action", player |-> witch,
                                    target |-> None])
                              /\ UNCHANGED <<witch_potions, witch_heal_used,
                                             witch_poison_used>>
                         ELSE UNCHANGED <<witch_potions, witch_heal_used,
                                          witch_poison_used, night_events>>
    /\ pc' = "hunter"
    /\ UNCHANGED <<players_config, contextVars>>
    /\ UNCHANGED <<role, team, seer_checks, status, hunter_can_shoot,
                   current_round, vote_records, phase,
                   wolf_kill_target, deaths_this_night, night_results,
                   day_results, victory_check, second_check, game_result,
                   night_pre, trace>>

\* step 4 of the night: a hunter about to die is noted, nobody is shot; as a
\* variant the note names the first living player as the hunter's target
HunterPhase_names_target ==
    /\ pc = "hunter"
    /\ LET hunters == get_alive_players_by_role(HUNTER)
       IN  IF /\ hunters # <<>>
              /\ wolf_kill_target # None
              /\ ~witch_heal_used
              /\ wolf_kill_target = hunters[1]
              /\ hunter_can_shoot[hunters[1]]
           THEN night_events' = Append(night_events,
                    [type |-> "hunter_death", player |-> hunters[1],
                     target |-> get_alive_players[1]])
           ELSE UNCHANGED night_events
    /\ pc' = "process"
    /\ UNCHANGED <<players_config, contextVars>>
    /\ UNCHANGED <<gameStateVars, witch_action, night_results, day_results,
                   victory_check, second_check, game_result,
                   night_pre, wolf_step, day_step, trace>>

HunterPhase ==
    /\ pc = "hunter"
    /\ LET hunters == get_alive_players_by_role(HUNTER)
       IN  IF /\ hunters # <<>>
              /\ wolf_kill_target # None
              /\ ~witch_heal_used
              /\ wolf_kill_target = hunters[1]
              /\ hunter_can_shoot[hunters[1]]
           THEN night_events' = Append(night_events,
                    [type |-> "hunter_death", player |-> hunters[1],
                     target |-> None])
           ELSE UNCHANGED night_events
    /\ pc' = "process"
    /\ UNCHANGED <<players_config, contextVars>>
    /\ UNCHANGED <<gameStateVars, witch_action, night_results, day_results,
                   victory_check, second_check, game_result,
                   night_pre, wolf_step, day_step, trace>>

\* the targets of the witch_poison events of the night that are alive
poison_deaths ==
    {night_events[i].target : i \in
        {j \in DOMAIN night_events :
            /\ night_events[j].type = "witch_poison"
            /\ player_exists(night_events[j].target)
            /\ is_alive(night_events[j].target)}}

\* _process_night_actions: who dies tonight
process_night_actions_ignores_heal ==
    LET wolf_deaths ==
            IF /\ wolf_kill_target # None
               /\ player_exists(wolf_kill_target)
               /\ is_alive(wolf_kill_target)
            THEN {wolf_kill_target} ELSE {}
    IN  SortedSeq(wolf_deaths \cup poison_deaths)

process_night_actions_ignores_poison ==
    LET wolf_deaths ==
            IF /\ wolf_kill_target # None
               /\ ~witch_heal_used
               /\ player_exists(wolf_kill_target)
               /\ is_alive(wolf_kill_target)
            THEN {wolf_kill_target} ELSE {}
    IN  SortedSeq(wolf_deaths)

process_night_actions_unsorted ==
    LET wolf_deaths ==
            IF /\ wolf_kill_target # None
               /\ ~witch_heal_used
               /\ player_exists(wolf_kill_target)
               /\ is_alive(wolf_kill_target)
            THEN <<wolf_kill_target>> ELSE <<>>
    IN  wolf_deaths \o SortedSeq(poison_deaths)

process_night_actions ==
    LET wolf_deaths ==
            IF /\ wolf_kill_target # None
               /\ ~witch_heal_used
               /\ player_exists(wolf_kill_target)
               /\ is_alive(wolf_kill_target)
            THEN {wolf_kill_target} ELSE {}
    IN  SortedSeq(wolf_deaths \cup poison_deaths)

\* GameState.kill_player applied to each id of a list; as a variant the
\* statuses are rebuilt from the list alone
kill_players_from_list_alone(st, deaths) ==
    [p \in DOMAIN st |-> IF p \in Range(deaths) THEN DEAD ELSE ALIVE]

kill_players(st, deaths) ==
    [p \in DOMAIN st |->
        IF p \in Range(deaths) /\ st[p] = ALIVE THEN DEAD ELSE st[p]]

\* step 5 of the night: deaths are applied and the night result is returned
ProcessNight(return_pc) ==
    /\ pc = "process"
    /\ LET deaths == process_night_actions
       IN  /\ status' = kill_players(status, deaths)
           /\ deaths_this_night' = deaths_this_night \o deaths
           /\ night_results' =
                 [round |-> current_round, deaths |-> deaths,
                  wolf_kill_target |-> wolf_kill_target,
                  witch_heal_used |-> witch_heal_used,
                  witch_poison_used |-> witch_poison_used]
    /\ trace' = Append(trace, "night")
    /\ pc' = return_pc
    /\ UNCHANGED <<players_config, contextVars>>
    /\ UNCHANGED <<role, team, seer_checks, witch_potions, hunter_can_shoot,
                   current_round, vote_records,
                   phase, wolf_kill_target, witch_heal_used, witch_poison_used,
                   night_events, witch_action, day_results, victory_check,
                   second_check, game_result, night_pre, wolf_step, day_step>>

\* --------------------------------------------- start_game, after the night
\* the branch of start_game after the check that follows the night
after_night_pc_ignores_result(vc) == "day"

after_night_pc(vc) == IF vc.game_over THEN "end_game" ELSE "day"

\* the branch of start_game after the check that follows the day
after_day_pc(vc) == IF vc.game_over THEN "end_game" ELSE "loop"

check_label(vc) == IF vc.game_over THEN "victory_check_over"
                                   ELSE "victory_check_continue"

\* the victory check after the night
CheckAfterNight ==
    /\ pc = "check_night"
    /\ victory_check' = check_victory_conditions
    /\ VictoryCallFrame
    /\ pc' = after_night_pc(victory_check')
    /\ UNCHANGED <<players_config, contextVars>>
    /\ trace' = Append(trace, check_label(victory_check'))
    /\ UNCHANGED <<night_events, witch_action, night_results, day_results,
                   second_check, game_result, night_pre, wolf_step, day_step>>

\* -------------------------------------------------- DayPhase.execute_day_phase
\* a reply to the vote prompt: the number of the VOTE line (0: none) and all
\* the numbers of the reply in order
VoteReply(n) == [vote |-> n, numbers |-> IF n = 0 THEN <<>> ELSE <<n>>]

\* LLMPlayer.vote_for_player: the named candidate if it is another candidate,
\* else the first number of the reply that is, else the first other candidate
vote_for_player(self, candidates, response) ==
    LET safe_candidates == SelectSeq(candidates, LAMBDA c : c # self)
        mentioned == SelectSeq(response.numbers,
                               LAMBDA n : n \in Range(safe_candidates))
    IN  IF safe_candidates = <<>>
        THEN IF candidates # <<>> THEN candidates[1] ELSE self
        ELSE IF response.vote # 0 /\ response.vote \in Range(safe_candidates)
        THEN response.vote
        ELSE IF mentioned # <<>> THEN mentioned[1]
        ELSE safe_candidates[1]

\* position of a voter among the voters
RankIn(S, v) == Cardinality({u \in S : u <= v})

\* the replies considered for the voters: the lower half of the voters names
\* one id and the upper half names one id (the same one or another)
BlocNames == ResponseIds \X ResponseIds

BallotReplies(voters, names) ==
    [v \in voters |->
        IF 2 * RankIn(voters, v) <= Cardinality(voters)
        THEN VoteReply(names[1]) ELSE VoteReply(names[2])]

\* the ballots vote_for_player returns to _voting_phase
LLMBallots(alive_players, names) ==
    [v \in Range(alive_players) |->
        vote_for_player(v, alive_players,
                        BallotReplies(Range(alive_players), names)[v])]

\* votes of _voting_phase: the returned vote if it is a candidate, else the
\* first candidate; as a variant a vote for oneself counts for the first
\* candidate too
collect_votes_no_self_vote(alive_players, ballots) ==
    LET candidate_ids == Range(alive_players)
    IN  IF Len(alive_players) <= 1 THEN <<>>
        ELSE [v \in candidate_ids |->
                 IF ballots[v] \in candidate_ids \ {v} THEN ballots[v]
                                                       ELSE alive_players[1]]

collect_votes(alive_players, ballots) ==
    LET candidate_ids == Range(alive_players)
    IN  IF Len(alive_players) <= 1 THEN <<>>
        ELSE [v \in candidate_ids |->
                 IF ballots[v] \in candidate_ids THEN ballots[v]
                                                 ELSE alive_players[1]]

\* vote_count of _voting_phase
count_votes(votes) ==
    [t \in {votes[v] : v \in DOMAIN votes} |->
        Cardinality({v \in DOMAIN votes : votes[v] = t})]

\* eliminated of _voting_phase: the only candidate with the most votes, or
\* None; as a variant the lowest id among the most voted
eliminated_player_lowest_of_tied(vote_count) ==
    IF DOMAIN vote_count = {} THEN None
    ELSE CHOOSE t \in DOMAIN vote_count :
             /\ \A u \in DOMAIN vote_count : vote_count[u] <= vote_count[t]
             /\ \A u \in DOMAIN vote_count :
                    vote_count[u] = vote_count[t] => t <= u

eliminated_player(vote_count) ==
    IF Cardinality({t \in DOMAIN vote_count :
                       \A u \in DOMAIN vote_count :
                           vote_count[u] <= vote_count[t]}) = 1
    THEN CHOOSE t \in DOMAIN vote_count :
             \A u \in DOMAIN vote_count : vote_count[u] <= vote_count[t]
    ELSE None

\* _voting_phase: the eliminated player, or None on a tie or with too few players
voting_phase(ballots) ==
    eliminated_player(count_votes(collect_votes(get_alive_players, ballots)))

\* _handle_hunter_shot asks the eliminated player for a target
hunter_shoots(eliminated) ==
    /\ eliminated # None
    /\ player_exists(eliminated)
    /\ role[eliminated] = HUNTER
    /\ hunter_can_shoot[eliminated]
    /\ get_alive_players # <<>>

\* the targets the eliminated hunter's vote_for_player may return
LLMShots(eliminated) ==
    IF hunter_shoots(eliminated)
    THEN {vote_for_player(eliminated, get_alive_players, VoteReply(n)) :
             n \in ResponseIds}
    ELSE {None}

\* _handle_hunter_shot: the target of a successful shot, or None
hunter_shot_target(eliminated, shot) ==
    IF hunter_shoots(eliminated) /\ shot \in Range(get_alive_players)
    THEN shot ELSE None

\* _process_day_deaths
process_day_deaths(eliminated, shot_target) ==
    LET deaths == IF eliminated # None THEN <<eliminated>> ELSE <<>>
    IN  IF shot_target # None /\ shot_target \notin Range(deaths)
        THEN Append(deaths, shot_target) ELSE deaths

\* a player class in the manner of test_fixes.MockLLMPlayer that overrides
\* vote_for_player as well: the id it returns is handed over as it is
ScriptedPlayer == "ScriptedPlayer"

\* _handle_last_words: the dead of the night who are given a last-words
\* turn, in the order of the list
handle_last_words_single_death_only(deaths) ==
    IF Len(deaths) = 1 THEN SelectSeq(deaths, player_exists) ELSE <<>>

handle_last_words(deaths) ==
    IF deaths = <<>> THEN <<>>
    ELSE IF current_round = 1 \/ Len(deaths) = 1
    THEN SelectSeq(deaths, player_exists)
    ELSE <<>>

\* _get_speaking_order: the living players from the first one whose id is
\* above the largest night death, the earlier ones behind; by id when nobody
\* died
get_speaking_order_from_first(night_deaths, alive_players) ==
    SortedSeq(Range(alive_players))

get_speaking_order(night_deaths, alive_players) ==
    IF night_deaths # <<>>
    THEN LET last_death ==
                 CHOOSE d \in Range(night_deaths) :
                     \A e \in Range(night_deaths) : e <= d
             later == {i \in DOMAIN alive_players :
                          alive_players[i] > last_death}
             start_index ==
                 IF later = {} THEN 1
                 ELSE CHOOSE i \in later : \A k \in later : i <= k
         IN  SubSeq(alive_players, start_index, Len(alive_players))
                 \o SubSeq(alive_players, 1, start_index - 1)
    ELSE SortedSeq(Range(alive_players))

\* _day_discussion: the players who speak, in order; as a variant a single
\* living player is not asked
day_discussion_needs_two(night_deaths) ==
    IF Len(get_alive_players) <= 1 THEN <<>>
    ELSE get_speaking_order(night_deaths, get_alive_players)

day_discussion(night_deaths) ==
    IF get_alive_players = <<>> THEN <<>>
    ELSE get_speaking_order(night_deaths, get_alive_players)

\* what decides the votes of the living players of a class: the ids the
\* scripted players return, the names in the replies of the others
VoteInputs(class, alive_players) ==
    IF class = ScriptedPlayer THEN [Range(alive_players) -> InputIds]
                              ELSE BlocNames

\* what vote_for_player of the living players of a class returns
day_ballots(class, alive_players, input) ==
    IF class = ScriptedPlayer THEN input
                              ELSE LLMBallots(alive_players, input)

\* GameState.record_vote called for each voter in the order of the living
\* players; as a variant only the votes of the current round are kept
record_votes_keeps_current_round(alive_players, votes) ==
    [i \in 1..Cardinality(DOMAIN votes) |->
        [round_num |-> current_round,
         voter_id |-> alive_players[i],
         target_id |-> votes[alive_players[i]]]]

record_votes(alive_players, votes) ==
    vote_records \o
        [i \in 1..Cardinality(DOMAIN votes) |->
            [round_num |-> current_round,
             voter_id |-> alive_players[i],
             target_id |-> votes[alive_players[i]]]]

\* the target ids the eliminated hunter of a class may return
day_shots(class, eliminated) ==
    IF class = ScriptedPlayer
    THEN IF hunter_shoots(eliminated) THEN InputIds ELSE {None}
    ELSE LLMShots(eliminated)

\* the dict (or None) returned by _handle_hunter_shot
NoHunterShot ==
    [type |-> "none", hunter |-> None, target |-> None, successful |-> FALSE]

\* variant: the hunter of the game shoots whenever somebody is voted out
handle_hunter_shot_on_any_elimination(eliminated, shot) ==
    IF \/ eliminated = None
       \/ ~player_exists(eliminated)
       \/ get_players_by_role(HUNTER) = <<>>
    THEN NoHunterShot
    ELSE [type |-> "hunter_shot", hunter |-> get_players_by_role(HUNTER)[1],
          target |-> get_alive_players[1], successful |-> TRUE]

handle_hunter_shot(eliminated, shot) ==
    IF \/ eliminated = None
       \/ ~player_exists(eliminated)
       \/ role[eliminated] # HUNTER
       \/ ~hunter_can_shoot[eliminated]
    THEN NoHunterShot
    ELSE [type |-> "hunter_shot", hunter |-> eliminated,
          target |-> hunter_shot_target(eliminated, shot),
          successful |-> hunter_shot_target(eliminated, shot) # None]

\* the day: last words, discussion, vote, hunter shot, deaths
DayPhase(class, return_pc) ==
    /\ pc = "day"
    /\ phase' = "day"
    /\ \E alive_players \in {get_alive_players} :
       \E input \in VoteInputs(class, alive_players) :
       \E ballots \in {day_ballots(class, alive_players, input)} :
       \E votes \in {collect_votes(alive_players, ballots)} :
         /\ vote_records' = record_votes(alive_players, votes)
         /\ \E eliminated \in {eliminated_player(count_votes(votes))} :
            \E shot \in day_shots(class, eliminated) :
            \E hunter_shot \in {handle_hunter_shot(eliminated, shot)} :
            \E day_deaths \in
                   {process_day_deaths(eliminated, hunter_shot.target)} :
              /\ status' = kill_players(status, day_deaths)
              /\ day_step' = [alive_players |-> alive_players,
                              ballots |-> ballots, shot |-> shot]
              /\ day_results' =
                     [night_deaths |-> night_results.deaths,
                      day_deaths |-> day_deaths,
                      last_words |-> handle_last_words(night_results.deaths),
                      discussion |-> day_discussion(night_results.deaths),
                      votes |-> votes,
                      eliminated |-> eliminated,
                      hunter_shot |-> hunter_shot]
    /\ trace' = Append(trace, "day")
    /\ pc' = return_pc
    /\ UNCHANGED <<players_config, contextVars>>
    /\ UNCHANGED <<role, team, seer_checks, witch_potions, hunter_can_shoot,
                   current_round, scratchVars, night_events, witch_action,
                   night_results, victory_check, second_check, game_result,
                   night_pre, wolf_step>>

\* the victory check after the day
CheckAfterDay ==
    /\ pc = "check_day"
    /\ victory_check' = check_victory_conditions
    /\ VictoryCallFrame
    /\ pc' = after_day_pc(victory_check')
    /\ UNCHANGED <<players_config, contextVars>>
    /\ trace' = Append(trace, check_label(victory_check'))
    /\ UNCHANGED <<night_events, witch_action, night_results, day_results,
                   second_check, game_result, night_pre, wolf_step, day_step>>

\* GameManager._end_game: the result handed to the logger and the caller
EndGame ==
    /\ pc = "end_game"
    /\ game_result' = [winner |-> victory_check.winner,
                       reason |-> victory_check.reason,
                       phase |-> phase]
    /\ pc' = "ended"
    /\ UNCHANGED <<players_config, contextVars>>
    /\ UNCHANGED <<gameStateVars, night_events, witch_action, night_results,
                   day_results, victory_check, second_check,
                   night_pre, wolf_step, day_step, trace>>

Next ==
    \/ SetupGame
    \/ BeginRound
    \/ NightClear
    \/ SeerPhase(LLMPlayer)
    \/ WerewolfPhase(LLMPlayer)
    \/ WitchPhase(LLMPlayer)
    \/ HunterPhase
    \/ ProcessNight("check_night")
    \/ CheckAfterNight
    \/ DayPhase(LLMPlayer, "check_day")
    \/ CheckAfterDay
    \/ EndGame

Spec == Init /\ [][Next]_vars

\* start_game runs on: every step of the loop is eventually taken
FairSpec == Spec /\ WF_vars(Next)

\* -------------------------------------------- one night on a hand-built state
\* a GameState built as in test_fixes.py: the test roster, any statuses and
\* potion flags, the round set by hand
InitNight ==
    /\ players_config = <<>>
    /\ InitContext
    /\ role = TestRoster
    /\ team = [i \in DOMAIN TestRoster |-> team_of(TestRoster[i])]
    /\ status \in [DOMAIN TestRoster -> {ALIVE, DEAD}]
    /\ \E h \in BOOLEAN, q \in BOOLEAN :
          witch_potions = [i \in DOMAIN TestRoster |->
               IF TestRoster[i] = WITCH THEN [heal |-> h, poison |-> q]
                                        ELSE [heal |-> TRUE, poison |-> TRUE]]
    /\ hunter_can_shoot = [i \in DOMAIN TestRoster |-> TRUE]
    /\ seer_checks = [i \in DOMAIN TestRoster |-> <<>>]
    /\ current_round = 1
    /\ phase = "setup"
    /\ vote_records = <<>>
    /\ wolf_kill_target = None
    /\ witch_heal_used = FALSE
    /\ witch_poison_used = FALSE
    /\ deaths_this_night = <<>>
    /\ InitLocals
    /\ pc = "night_clear"

NextNight ==
    \/ NightClear
    \/ SeerPhase(MockLLMPlayer)
    \/ WerewolfPhase(MockLLMPlayer)
    \/ WitchPhase(MockLLMPlayer)
    \/ HunterPhase
    \/ ProcessNight("night_returned")

SpecNight == InitNight /\ [][NextNight]_vars

\* ---------------------------------------------- one day on a hand-built state
\* the night deaths handed to execute_day_phase: up to two of the dead, in
\* either order; in the first round everybody dead died in the night
NightDeathLists(st, round) ==
    LET dead == {p \in DOMAIN st : st[p] = DEAD}
        lists == {<<>>} \cup {<<p>> : p \in dead}
                     \cup {<<p, q>> : p \in dead, q \in dead}
    IN  {l \in lists :
            /\ Cardinality(Range(l)) = Len(l)
            /\ (round = 1) => (Range(l) = dead)}

\* the ledger of a game in its second round: empty after a first day that was
\* skipped, or the two votes of a first day
EarlierVotes == <<[round_num |-> 1, voter_id |-> 1, target_id |-> 2],
                  [round_num |-> 1, voter_id |-> 2, target_id |-> 1]>>

\* a GameState built as in test_fixes.py: the test roster, any statuses, the
\* round set by hand; execute_day_phase is called on it
InitDay ==
    /\ players_config = <<>>
    /\ InitContext
    /\ role = TestRoster
    /\ team = [i \in DOMAIN TestRoster |-> team_of(TestRoster[i])]
    /\ status \in [DOMAIN TestRoster -> {ALIVE, DEAD}]
    /\ witch_potions = [i \in DOMAIN TestRoster |->
                            [heal |-> TRUE, poison |-> TRUE]]
    /\ hunter_can_shoot = [i \in DOMAIN TestRoster |-> TRUE]
    /\ seer_checks = [i \in DOMAIN TestRoster |-> <<>>]
    /\ current_round \in {1, 2}
    /\ phase = "day"
    /\ vote_records \in IF current_round = 1 THEN {<<>>}
                                             ELSE {<<>>, EarlierVotes}
    /\ wolf_kill_target = None
    /\ witch_heal_used = FALSE
    /\ witch_poison_used = FALSE
    /\ deaths_this_night = <<>>
    /\ night_events = <<>>
    /\ witch_action = NoAction
    /\ \E deaths \in NightDeathLists(status, current_round) :
           night_results = [NoNightResults EXCEPT !.round = current_round,
                                                  !.deaths = deaths]
    /\ day_results = NoDayResults
    /\ victory_check = NoVictory
    /\ second_check = NoVictory
    /\ game_result = NoGameResult
    /\ night_pre = NoNightPre
    /\ wolf_step = NoWolfStep
    /\ day_step = NoDayStep
    /\ trace = <<>>
    /\ pc = "day"

NextDay == DayPhase(ScriptedPlayer, "day_returned")

SpecDay == InitDay /\ [][NextDay]_vars

\* ------------------------------------------- the werewolf step of a large pack
\* a GameState built by hand on PackRoster: everybody alive, or villager 1
\* and wolf 8 dead; _werewolf_phase is called on it
InitPack ==
    /\ players_config = <<>>
    /\ InitContext
    /\ role = PackRoster
    /\ team = [i \in DOMAIN PackRoster |-> team_of(PackRoster[i])]
    /\ status \in {[p \in DOMAIN PackRoster |-> ALIVE],
                    [p \in DOMAIN PackRoster |->
                        IF p \in {1, 8} THEN DEAD ELSE ALIVE]}
    /\ witch_potions = [i \in DOMAIN PackRoster |->
                            [heal |-> TRUE, poison |-> TRUE]]
    /\ hunter_can_shoot = [i \in DOMAIN PackRoster |-> TRUE]
    /\ seer_checks = [i \in DOMAIN PackRoster |-> <<>>]
    /\ current_round = 1
    /\ phase = "night"
    /\ vote_records = <<>>
    /\ wolf_kill_target = None
    /\ witch_heal_used = FALSE
    /\ witch_poison_used = FALSE
    /\ deaths_this_night = <<>>
    /\ InitLocals
    /\ pc = "werewolf"

NextPack == WerewolfPhase(MockLLMPlayer)

SpecPack == InitPack /\ [][NextPack]_vars

\* ------------------------------------- the victory check on arbitrary snapshots
\* a GameState snapshot: the sample roster with any statuses, round and potions
InitVictory ==
    /\ players_config = <<>>
    /\ InitContext
    /\ role = SampleConfig
    /\ team = [i \in DOMAIN SampleConfig |-> team_of(SampleConfig[i])]
    /\ status \in [DOMAIN SampleConfig -> {ALIVE, DEAD}]
    /\ \E h \in BOOLEAN, q \in BOOLEAN :
          witch_potions = [i \in DOMAIN SampleConfig |->
               IF SampleConfig[i] = WITCH THEN [heal |-> h, poison |-> q]
                                          ELSE [heal |-> TRUE, poison |-> TRUE]]
    /\ hunter_can_shoot = [i \in DOMAIN SampleConfig |-> TRUE]
    /\ seer_checks = [i \in DOMAIN SampleConfig |-> <<>>]
    /\ current_round \in 0..(max_rounds + 1)
    /\ phase \in {"night", "day"}
    /\ vote_records = <<>>
    /\ wolf_kill_target = None
    /\ witch_heal_used = FALSE
    /\ witch_poison_used = FALSE
    /\ deaths_this_night = <<>>
    /\ InitLocals
    /\ pc = "first_check"

VictoryFirstCall ==
    /\ pc = "first_check"
    /\ victory_check' = check_victory_conditions
    /\ VictoryCallFrame
    /\ pc' = "second_check"
    /\ UNCHANGED <<players_config, contextVars>>
    /\ UNCHANGED <<night_events, witch_action, night_results, day_results,
                   second_check, game_result,
                   night_pre, wolf_step, day_step, trace>>

VictorySecondCall ==
    /\ pc = "second_check"
    /\ second_check' = check_victory_conditions
    /\ VictoryCallFrame
    /\ pc' = "checked_twice"
    /\ UNCHANGED <<players_config, contextVars>>
    /\ UNCHANGED <<night_events, witch_action, night_results, day_results,
                   victory_check, game_result,
                   night_pre, wolf_step, day_step, trace>>

NextVictory == VictoryFirstCall \/ VictorySecondCall

SpecVictory == InitVictory /\ [][NextVictory]_vars

\* ------------------------------------------------------------ properties
LivingWolves ==
    Cardinality({p \in DOMAIN role : role[p] = WEREWOLF /\ status[p] = ALIVE})

LivingVillage ==
    Cardinality({p \in DOMAIN role : role[p] # WEREWOLF /\ status[p] = ALIVE})

TheWitch == CHOOSE p \in DOMAIN role : role[p] = WITCH

\* the witch-exhausted 1v1 rule of the victory check
WitchExhausted1v1 ==
    /\ status[TheWitch] = DEAD
    /\ ~witch_potions[TheWitch].heal
    /\ ~witch_potions[TheWitch].poison
    /\ LivingWolves = 1
    /\ LivingVillage = 1

\* C1: the victory check decides by one priority order: no living wolf is a
\* village win; else wolves >= village team is a werewolf win; else the
\* witch-exhausted 1v1 rule; else the round limit is a draw; else the game
\* continues. When several conditions hold, the earlier rule gives the winner.
C1_VictoryPriority ==
    pc \in {"second_check", "checked_twice"} =>
        IF LivingWolves = 0
        THEN victory_check.game_over /\ victory_check.winner = "villagers"
        ELSE IF LivingWolves >= LivingVillage
        THEN victory_check.game_over /\ victory_check.winner = "werewolves"
        ELSE IF WitchExhausted1v1
        THEN victory_check.game_over /\ victory_check.winner = "werewolves"
        ELSE IF current_round >= max_rounds
        THEN victory_check.game_over /\ victory_check.winner = "draw"
        ELSE ~victory_check.game_over /\ victory_check.winner = "none"

\* no wolf is alive and the round limit is reached: the village wins
C1_Witness ==
    /\ pc = "second_check"
    /\ LivingWolves = 0
    /\ current_round >= max_rounds
    /\ victory_check.winner = "villagers"

\* C2 as stated: below the round limit, 3 wolves against 3 of the village team
\* continues and 3 against 2 is a werewolf win
C2_ParityContinues ==
    (pc = "second_check" /\ current_round < max_rounds /\ LivingWolves = 3) =>
        /\ LivingVillage = 3 => ~victory_check.game_over
        /\ LivingVillage = 2 =>
              victory_check.game_over /\ victory_check.winner = "werewolves"

\* C2: below the round limit, 3 wolves against 3 of the village team is a
\* werewolf win (parity), 3 against 2 is a werewolf win, and 3 against 4
\* continues
C2_ParityWins ==
    (pc = "second_check" /\ current_round < max_rounds /\ LivingWolves = 3) =>
        /\ LivingVillage \in {2, 3} =>
              victory_check.game_over /\ victory_check.winner = "werewolves"
        /\ LivingVillage = 4 => ~victory_check.game_over

\* 3 against 3 below the round limit, decided for the werewolves
C2_Witness ==
    /\ pc = "second_check"
    /\ current_round < max_rounds
    /\ LivingWolves = 3
    /\ LivingVillage = 3
    /\ victory_check.winner = "werewolves"

C4_Terminates ==
    /\ (pc = "loop") ~>
          (pc = "ended" /\
           game_result.winner \in {"villagers", "werewolves", "draw"})
    /\ [](pc = "loop" => current_round < max_rounds)

\* a game that ended after its first round
C4_Witness ==
    /\ pc = "ended"
    /\ current_round > 1
    /\ game_result.winner \in {"villagers", "werewolves", "draw"}

IsCheck(label) == label \in {"victory_check_over", "victory_check_continue"}

\* C5: the steps of start_game come in rounds of round increment, night,
\* victory check, day, victory check; nothing follows a check that reports
\* the game over (no day of that round, no further night)
C5_RoundOrder ==
    \A i \in DOMAIN trace :
        /\ i % 5 = 1 => trace[i] = "round_increment"
        /\ i % 5 = 2 => trace[i] = "night"
        /\ i % 5 = 3 => IsCheck(trace[i])
        /\ i % 5 = 4 => trace[i] = "day"
        /\ i % 5 = 0 => IsCheck(trace[i])
        /\ trace[i] = "victory_check_over" => i = Len(trace)

\* a game the check after a night ended
C5_Witness ==
    /\ pc = "ended"
    /\ Len(trace) % 5 = 3
    /\ trace[Len(trace)] = "victory_check_over"
    /\ Len(trace) > 5

\* C6 as stated: the phase is one of Setup, Night, Day, Ended, it moves only
\* along Setup -> Night, Night -> Day, Day -> Night, Night -> Ended,
\* Day -> Ended, and it is Ended in the state handed over when the game ends
C6_PhaseEndedAtExport ==
    /\ [][(<<phase, phase'>>) \in
            {<<"setup", "night">>, <<"night", "day">>, <<"day", "night">>,
             <<"night", "ended">>, <<"day", "ended">>}]_phase
    /\ [](phase \in {"setup", "night", "day", "ended"})
    /\ [](pc = "ended" => game_result.phase = "ended" /\ phase = "ended")

\* ------------------------------------------------- properties of one night
NightReturned == pc = "night_returned"

\* the witch decided while alive
WitchActed == night_pre.status[TheWitch] = ALIVE

AliveBefore == {p \in DOMAIN role : night_pre.status[p] = ALIVE}

\* the potions the witch spent this night, read from her flags
HealSpent ==
    night_pre.witch_potions[TheWitch].heal /\ ~witch_potions[TheWitch].heal

PoisonSpent ==
    night_pre.witch_potions[TheWitch].poison /\ ~witch_potions[TheWitch].poison

WolfTarget == {night_results.wolf_kill_target} \ {None}

\* C7: the deaths a night returns are the wolves' target unless healed, and
\* the poisoned player, among the players alive, each once, by increasing id;
\* exactly they have died
C7_NightDeaths ==
    NightReturned =>
        LET healed == IF HealSpent THEN {witch_action.target} ELSE {}
            poisoned == IF PoisonSpent THEN {witch_action.target} ELSE {}
            expected == ((WolfTarget \ healed) \cup poisoned) \cap AliveBefore
            deaths == night_results.deaths
        IN  /\ Range(deaths) = expected
            /\ \A i, j \in DOMAIN deaths : i < j => deaths[i] < deaths[j]
            /\ \A p \in DOMAIN role :
                  status[p] = DEAD <=>
                      (night_pre.status[p] = DEAD \/ p \in expected)

\* a night with two deaths, the poisoned player having the lower id
C7_Witness ==
    /\ NightReturned
    /\ Len(night_results.deaths) = 2
    /\ PoisonSpent
    /\ witch_action.target < night_results.wolf_kill_target

\* the witch, alive and holding the heal potion, heals the wolves' target
HealsWolfTarget ==
    /\ NightReturned
    /\ WitchActed
    /\ night_pre.witch_potions[TheWitch].heal
    /\ witch_action.action = "heal"
    /\ night_results.wolf_kill_target # None
    /\ witch_action.target = night_results.wolf_kill_target

\* C8: when the witch heals the wolves' target, nobody dies that night, her
\* heal potion is gone and the night result reports the heal
C8_HealCancelsKill ==
    HealsWolfTarget =>
        /\ night_results.wolf_kill_target \notin Range(night_results.deaths)
        /\ night_results.deaths = <<>>
        /\ status = night_pre.status
        /\ ~witch_potions[TheWitch].heal
        /\ night_results.witch_heal_used

\* the heal of test_witch_heal_mechanism, everybody alive
C8_Witness ==
    /\ HealsWolfTarget
    /\ \A p \in DOMAIN role : status[p] = ALIVE
    /\ night_results.witch_heal_used

\* the witch, alive and holding the poison, poisons a living player that is
\* not the wolves' target
PoisonsAnother ==
    /\ NightReturned
    /\ WitchActed
    /\ night_pre.witch_potions[TheWitch].poison
    /\ witch_action.action = "poison"
    /\ witch_action.target \in AliveBefore
    /\ witch_action.target # night_results.wolf_kill_target

\* C9: when the witch poisons a living player other than the wolves' target,
\* that player dies besides the wolves' target and her poison is gone
C9_PoisonAddsDeath ==
    PoisonsAnother =>
        /\ witch_action.target \in Range(night_results.deaths)
        /\ WolfTarget \subseteq Range(night_results.deaths)
        /\ status[witch_action.target] = DEAD
        /\ ~witch_potions[TheWitch].poison
        /\ night_results.witch_poison_used

\* a poisoning in a night in which the wolves kill too
C9_Witness ==
    /\ PoisonsAnother
    /\ night_results.wolf_kill_target # None
    /\ Len(night_results.deaths) = 2

\* a heal that is not legal: no potion, no wolves' target, or another player
IllegalHeal ==
    /\ witch_action.action = "heal"
    /\ \/ ~night_pre.witch_potions[TheWitch].heal
       \/ night_results.wolf_kill_target = None
       \/ witch_action.target # night_results.wolf_kill_target

\* a poisoning that is not legal: no potion, or a dead or unknown target
IllegalPoison ==
    /\ witch_action.action = "poison"
    /\ \/ ~night_pre.witch_potions[TheWitch].poison
       \/ witch_action.target \notin AliveBefore

\* C10: an illegal choice of the witch does nothing: both potions stay as
\* they were, the wolves' kill is not cancelled and nobody else dies
C10_IllegalChoiceIsNoOp ==
    (NightReturned /\ WitchActed /\ (IllegalHeal \/ IllegalPoison)) =>
        /\ witch_potions = night_pre.witch_potions
        /\ ~night_results.witch_heal_used
        /\ ~night_results.witch_poison_used
        /\ Range(night_results.deaths) = WolfTarget

\* a heal of a player the wolves did not target, the potion in hand
C10_Witness ==
    /\ NightReturned
    /\ WitchActed
    /\ witch_action.action = "heal"
    /\ night_pre.witch_potions[TheWitch].heal
    /\ night_results.wolf_kill_target # None
    /\ witch_action.target \in AliveBefore \ {night_results.wolf_kill_target}
    /\ night_results.deaths = <<night_results.wolf_kill_target>>

\* C11: in one night the witch spends at most one potion: no night returns
\* with both the heal and the poison flag turned from true to false
C11_OnePotionPerNight ==
    NightReturned => ~(HealSpent /\ PoisonSpent)

\* a witch holding both potions who spent one of them in the night
C11_Witness ==
    /\ NightReturned
    /\ WitchActed
    /\ night_pre.witch_potions[TheWitch] = [heal |-> TRUE, poison |-> TRUE]
    /\ HealSpent
    /\ witch_potions[TheWitch].poison

\* C12: each potion flag of a player is true when the player is created and,
\* once false, is never true again
C12_PotionsNeverRefilled ==
    /\ [][/\ \A p \in DOMAIN witch_potions :
               /\ p \in DOMAIN witch_potions'
               /\ witch_potions'[p].heal => witch_potions[p].heal
               /\ witch_potions'[p].poison => witch_potions[p].poison
          /\ \A p \in (DOMAIN witch_potions') \ (DOMAIN witch_potions) :
               witch_potions'[p] = [heal |-> TRUE, poison |-> TRUE]]_vars
    /\ [](current_round = 0 =>
            \A p \in DOMAIN witch_potions : witch_potions[p].heal
                                            /\ witch_potions[p].poison)

\* a game that goes on after the witch has spent the heal in one night and
\* the poison in a later one
C12_Witness ==
    /\ pc = "loop"
    /\ current_round >= 2
    /\ \E p \in DOMAIN role :
         /\ role[p] = WITCH
         /\ witch_potions[p] = [heal |-> FALSE, poison |-> FALSE]

\* the living players of a status map
Living(st) == {p \in DOMAIN st : st[p] = ALIVE}

\* C13: a dead player stays dead, no step raises the number of living
\* players, and after a night and a day no more players live than when the
\* night began
C13_StatusMonotonic ==
    /\ [][/\ \A p \in DOMAIN status :
               /\ p \in DOMAIN status'
               /\ status[p] = DEAD => status'[p] = DEAD
          /\ status # <<>> =>
               Cardinality(Living(status')) <= Cardinality(Living(status))]_vars
    /\ [](pc \in {"check_night", "day", "check_day"} =>
            /\ Living(status) \subseteq Living(night_pre.status)
            /\ Cardinality(Living(status)) <=
                   Cardinality(Living(night_pre.status)))

\* the second cycle of a game has ended with two players fewer than it began
C13_Witness ==
    /\ pc = "check_day"
    /\ current_round = 2
    /\ Cardinality(Living(status)) = Cardinality(Living(night_pre.status)) - 2
    /\ Cardinality(Living(status)) < RosterSize - 2

\* C14: the round counter is 0 until the first night, a step that enters
\* the night raises it by exactly one, and every other step, the steps of
\* the night and of the day among them, leaves it as it is
C14_RoundCounter ==
    /\ [](pc \in {"setup", "setup_failed"} => current_round = 0)
    /\ [][IF phase # "night" /\ phase' = "night"
          THEN current_round' = current_round + 1
          ELSE current_round' = current_round]_vars
    /\ [](phase \in {"night", "day"} => current_round >= 1)

\* the third night has been entered after two full rounds
C14_Witness ==
    /\ pc = "night_clear"
    /\ phase = "night"
    /\ current_round = 3
    /\ Len(trace) = 11
    /\ Len(SelectSeq(trace, LAMBDA e : e = "round_increment")) = 3

\* C15: a player is on the werewolf team exactly when the player's role is
\* werewolf, and once the players are created no step changes a role or a
\* team
C15_TeamFollowsRole ==
    /\ [](/\ DOMAIN team = DOMAIN role
          /\ \A p \in DOMAIN role :
               /\ team[p] \in {WEREWOLF, VILLAGER}
               /\ team[p] = WEREWOLF <=> role[p] = WEREWOLF)
    /\ [][role # <<>> => (role' = role /\ team' = team)]_vars

\* a finished game in which a werewolf and a special villager have died
C15_Witness ==
    /\ pc = "ended"
    /\ \E p, q \in DOMAIN role :
         /\ role[p] = WEREWOLF /\ team[p] = WEREWOLF /\ status[p] = DEAD
         /\ role[q] \in {SEER, WITCH} /\ team[q] = VILLAGER
         /\ status[q] = DEAD

\* the living players that are no werewolves
Eligible == {p \in DOMAIN role : status[p] = ALIVE /\ role[p] # WEREWOLF}

\* the number of kill proposals of the werewolf step just taken that name t
Proposals(t) ==
    Cardinality({w \in DOMAIN wolf_step.proposals :
                    /\ wolf_step.proposals[w].action = "kill"
                    /\ wolf_step.proposals[w].target = t})

\* the werewolf step has just been taken by at least one wolf
WolvesActed == pc = "witch" /\ wolf_step # NoWolfStep

\* C16: a kill target that the werewolf step yields is a living player who
\* is no werewolf, and no living non-werewolf was proposed by more wolves
\* (the only top target without a tie, one of the top targets on a tie)
C16_PluralityTarget ==
    (WolvesActed /\ wolf_kill_target # None) =>
        /\ wolf_kill_target \in Eligible
        /\ \A u \in Eligible : Proposals(u) <= Proposals(wolf_kill_target)

\* five wolves cast 2, 2 and 1 proposals on three villagers
C16_Witness ==
    /\ WolvesActed
    /\ {Proposals(u) : u \in Eligible} = {1, 2}
    /\ Cardinality({u \in Eligible : Proposals(u) = 2}) = 2
    /\ Proposals(wolf_kill_target) = 2

\* the first living non-werewolf by id
FirstEligible == CHOOSE p \in Eligible : \A q \in Eligible : p <= q

\* the wolves whose proposal of the step just taken is no kill of a living
\* non-werewolf
Malformed ==
    {w \in DOMAIN wolf_step.proposals :
        \/ wolf_step.proposals[w].action # "kill"
        \/ wolf_step.proposals[w].target \notin Eligible}

\* the tally in which a malformed proposal counts for the first eligible
\* player
ProposalsWithDefault(t) ==
    Proposals(t) + (IF t = FirstEligible THEN Cardinality(Malformed) ELSE 0)

TopTargets ==
    {t \in Eligible :
        /\ Proposals(t) >= 1
        /\ \A u \in Eligible : Proposals(u) <= Proposals(t)}

TheSeer == CHOOSE p \in DOMAIN role : role[p] = SEER

\* C19: every entry of a check map is truthful: the target is a player of
\* the game, and the result is werewolf exactly when the target's role is
\* werewolf and good for every other role, special roles included
C19_ChecksAreTruthful ==
    \A s \in DOMAIN seer_checks : \A t \in DOMAIN seer_checks[s] :
        /\ t \in DOMAIN role
        /\ seer_checks[s][t] \in {IS_WEREWOLF, IS_GOOD}
        /\ seer_checks[s][t] = IS_WEREWOLF <=> role[t] = WEREWOLF

\* a night in which the seer checked a player with a special role of the
\* village and was told that the player is good
C19_Witness ==
    /\ NightReturned
    /\ \E t \in DOMAIN seer_checks[TheSeer] :
         /\ role[t] \in {WITCH, HUNTER}
         /\ seer_checks[TheSeer][t] = IS_GOOD
         /\ \E i \in DOMAIN night_events :
              night_events[i] =
                  [type |-> "seer_check", player |-> TheSeer, target |-> t]

\* the players the seer could check when the night began: alive, not the
\* seer, not in the check map
CheckCandidates ==
    {p \in DOMAIN role :
        /\ night_pre.status[p] = ALIVE
        /\ p # TheSeer
        /\ p \notin DOMAIN night_pre.seer_checks[TheSeer]}

\* the seer's step of the night has been taken
SeerStepTaken ==
    pc \in {"werewolf", "witch", "hunter", "process", "check_night"}

\* the targets that entered the seer's check map this night
NewChecks ==
    (DOMAIN seer_checks[TheSeer]) \ (DOMAIN night_pre.seer_checks[TheSeer])

\* C20: in a night with the seer alive and a living unchecked player other
\* than the seer, exactly one target enters the seer's check map, a living
\* player other than the seer that was not checked before (so nobody is
\* checked twice in a game), earlier entries stay, and a reply that names
\* no such player checks the first unchecked living player; in any other
\* night the map stays as it was
C20_OneNewCheckPerNight ==
    /\ SeerStepTaken =>
         /\ \A t \in DOMAIN night_pre.seer_checks[TheSeer] :
              /\ t \in DOMAIN seer_checks[TheSeer]
              /\ seer_checks[TheSeer][t] = night_pre.seer_checks[TheSeer][t]
         /\ IF night_pre.status[TheSeer] = ALIVE /\ CheckCandidates # {}
            THEN /\ Cardinality(NewChecks) = 1
                 /\ NewChecks \subseteq CheckCandidates
                 /\ \E i \in DOMAIN night_events :
                      /\ night_events[i].type = "seer_check"
                      /\ night_events[i].target \in NewChecks
            ELSE NewChecks = {}
    /\ (pc = "seer" /\ status[TheSeer] = ALIVE /\ CheckCandidates # {}) =>
         \A response \in SeerResponses :
            seer_action(TheSeer, response) =
                [action |-> "check",
                 target |-> IF /\ response.line = "CHECK"
                               /\ response.number \in CheckCandidates
                            THEN response.number
                            ELSE CHOOSE p \in CheckCandidates :
                                    \A q \in CheckCandidates : p <= q]

\* the second night of a game: the seer, who checked one player in the
\* first night, has checked another one
C20_Witness ==
    /\ pc = "check_night"
    /\ current_round = 2
    /\ Cardinality(DOMAIN night_pre.seer_checks[TheSeer]) = 1
    /\ Cardinality(NewChecks) = 1
    /\ NewChecks \subseteq CheckCandidates

\* ------------------------------------------------------------------- the day
\* the entries a step appends to the vote ledger
VotesCast == SubSeq(vote_records', Len(vote_records) + 1, Len(vote_records'))

\* the day has run on the hand-built state
DayReturned == pc = "day_returned"

\* C21: in a voting phase with at least two living players exactly the living
\* players vote, each once; every vote appended to the ledger is (current
\* round, living voter, living candidate); a returned vote that is not a
\* living candidate is replaced by the first candidate, who has the lowest
\* living id; a vote for oneself is recorded as cast
C21_LivingPlayersVoteOnce ==
    [][(pc = "day" /\ Len(get_alive_players) >= 2) =>
          /\ Len(VotesCast) = Len(get_alive_players)
          /\ {VotesCast[i].voter_id : i \in DOMAIN VotesCast}
                 = Living(status)
          /\ \A p \in Living(status) : get_alive_players[1] <= p
          /\ \A i \in DOMAIN VotesCast :
               LET returned == day_step'.ballots[VotesCast[i].voter_id]
               IN  /\ VotesCast[i].round_num = current_round
                   /\ VotesCast[i].target_id \in Living(status)
                   /\ returned \in Living(status) =>
                          VotesCast[i].target_id = returned
                   /\ returned \notin Living(status) =>
                          VotesCast[i].target_id = get_alive_players[1]]_vars

\* a vote in which one player returned an id that is no living candidate and
\* another player's vote for himself was recorded
C21_Witness ==
    /\ DayReturned
    /\ Len(day_step.alive_players) >= 2
    /\ \E v \in DOMAIN day_step.ballots :
           day_step.ballots[v] \notin Range(day_step.alive_players)
    /\ \E i \in DOMAIN vote_records :
           /\ vote_records[i].round_num = current_round
           /\ vote_records[i].voter_id = vote_records[i].target_id
           /\ vote_records[i].voter_id # day_step.alive_players[1]

\* the votes a candidate got in the day just run
Tally(t) ==
    Cardinality({v \in DOMAIN day_results.votes : day_results.votes[v] = t})

\* the candidates with more votes than every other candidate
StrictLeaders ==
    {t \in Range(day_step.alive_players) :
        \A u \in Range(day_step.alive_players) \ {t} : Tally(t) > Tally(u)}

HunterVotedOut(h) ==
    /\ pc = "day"
    /\ day_results'.eliminated = h
    /\ role[h] = HUNTER
    /\ hunter_can_shoot[h]

\* C23: when the player eliminated by the vote is a hunter whose can_shoot
\* flag is set, the day yields exactly two deaths, the hunter and the target
\* he names, and the flag is cleared afterwards whether or not a valid target
\* was named
C23_HunterShotConsumesFlag ==
    [][\A h \in DOMAIN role :
          HunterVotedOut(h) =>
              /\ Len(day_results'.day_deaths) = 2
              /\ day_results'.day_deaths[1] = h
              /\ ~hunter_can_shoot'[h]]_vars

\* the hunters of the game
Hunters == {p \in DOMAIN role : role[p] = HUNTER}

\* the players poisoned in the night
Poisoned ==
    {night_events[i].target :
        i \in {j \in DOMAIN night_events :
                  night_events[j].type = "witch_poison"}}

C25_LastWordsRule ==
    DayReturned =>
        /\ (day_results.night_deaths # <<>>
              /\ (current_round = 1 \/ Len(day_results.night_deaths) = 1)) =>
               day_results.last_words = day_results.night_deaths
        /\ (current_round > 1 /\ Len(day_results.night_deaths) >= 2) =>
               day_results.last_words = <<>>
        /\ day_results.night_deaths = <<>> => day_results.last_words = <<>>

\* two players died in the first night and both were given last words
C25_Witness ==
    /\ DayReturned
    /\ current_round = 1
    /\ Len(day_results.night_deaths) = 2
    /\ Range(day_results.last_words) = Range(day_results.night_deaths)

\* the least id of a set of ids
Lowest(S) == CHOOSE p \in S : \A q \in S : p <= q

\* the living player who follows p going round the table by id
NextSpeaker(S, p) ==
    IF \E q \in S : q > p THEN Lowest({q \in S : q > p}) ELSE Lowest(S)

\* the largest id among the deaths of the night
LastDeath ==
    CHOOSE d \in Range(day_results.night_deaths) :
        \A e \in Range(day_results.night_deaths) : e <= d

FewLiving == pc = "day" /\ Len(get_alive_players) <= 1

\* the vote of the step is skipped: nothing is cast or recorded, nobody is
\* eliminated and the day has no deaths
VoteSkipped ==
    /\ day_results'.votes = <<>>
    /\ vote_records' = vote_records
    /\ day_results'.eliminated = None
    /\ day_results'.day_deaths = <<>>
    /\ status' = status

\* C27, as stated: a day that starts with zero or one living player skips
\* the discussion and the vote: nobody is asked to speak, no vote is cast or
\* recorded, nobody is eliminated and the day has no deaths
C27_DiscussionAndVoteSkipped ==
    [][FewLiving => (VoteSkipped /\ day_results'.discussion = <<>>)]_vars

\* C27, amended: a day that starts with zero or one living player skips the
\* vote; the discussion is skipped only with no living player, a single
\* living player is still asked to speak
C27_VoteSkippedSurvivorSpeaks ==
    [][FewLiving =>
          (VoteSkipped /\ day_results'.discussion = get_alive_players)]_vars

\* a day of the second round with one living player: he spoke, the ledger
\* still holds the two votes of the first round and nothing else
C27_Witness ==
    /\ DayReturned
    /\ Len(day_step.alive_players) = 1
    /\ day_results.discussion = day_step.alive_players
    /\ day_results.votes = <<>>
    /\ vote_records = EarlierVotes
    /\ day_results.day_deaths = <<>>

\* ----------------------------------------------------------------- the setup
\* every entry of the roster has all its keys
EntriesComplete ==
    \A i \in DOMAIN players_config : players_config[i].keys = ConfigKeys

\* the roster has ten entries: three werewolves, a seer, a witch, a hunter and
\* four villagers
TenWithStandardRoles ==
    /\ Len(players_config) = 10
    /\ \A i \in DOMAIN players_config : "role" \in players_config[i].keys
    /\ Cardinality({i \in DOMAIN players_config :
                       players_config[i].role = WEREWOLF}) = 3
    /\ Cardinality({i \in DOMAIN players_config :
                       players_config[i].role = SEER}) = 1
    /\ Cardinality({i \in DOMAIN players_config :
                       players_config[i].role = WITCH}) = 1
    /\ Cardinality({i \in DOMAIN players_config :
                       players_config[i].role = HUNTER}) = 1
    /\ Cardinality({i \in DOMAIN players_config :
                       players_config[i].role = VILLAGER}) = 4

C29_FailedSetupLeavesNoState ==
    (pc = "setup_failed") =>
        /\ DOMAIN role = {}
        /\ DOMAIN status = {}
        /\ current_round = 0
        /\ phase = "setup"

\* ------------------------------------------------------------ the vote ledger
\* the entries of a ledger cast in a round
VotesOfRound(ledger, r) == SelectSeq(ledger, LAMBDA v : v.round_num = r)

\* C30: the vote ledger is append-only: no step removes, reorders or rewrites
\* an entry of vote_records, and the votes of an earlier round are the same
\* after every later step
C30_LedgerAppendOnly ==
    [][/\ Len(vote_records') >= Len(vote_records)
       /\ SubSeq(vote_records', 1, Len(vote_records)) = vote_records
       /\ \A r \in 1..RoundCap :
              r < current_round =>
                  VotesOfRound(vote_records', r)
                      = VotesOfRound(vote_records, r)]_vars

\* after the day of the third round the ledger holds votes of rounds 1, 2
\* and 3, those of the first round ahead of the others
C30_Witness ==
    /\ pc = "check_day"
    /\ current_round = 3
    /\ \A r \in 1..3 : VotesOfRound(vote_records, r) # <<>>
    /\ vote_records[1].round_num = 1
    /\ vote_records[Len(vote_records)].round_num = 3

\* ------------------------------------- the speech log and the last-words buffer
\* SpeechHistoryTracker.__init__: the default of max_history_length, which
\* GameState.__init__ takes
max_history_length == 100

\* the calls of record_day_speech and add_last_words that are followed
MaxCalls == 3

\* the names create_test_game gives the five players
TestNames == <<"villager1", "wolf1", "seer", "witch", "hunter">>

\* Player.name
player_name(player_id) == TestNames[player_id]

\* the speeches handed to a call: empty or not
Speeches == {"", "x"}

\* the ids handed to a call: two players, id 0 and an id beyond the roster
CallIds == {0, 1, 2, Len(role) + 1}

\* SpeechRecord(...) as record_speech builds it (the timestamp is left out)
SpeechRecord(player_id, speech, round_num, speaking_order) ==
    [player_id |-> player_id, player_name |-> player_name(player_id),
     speech_content |-> speech, round_number |-> round_num,
     phase |-> "day_discussion", speaking_order |-> speaking_order]

\* variant: the trim keeps the oldest records instead of the newest
cleanup_old_records_keeps_oldest(records) ==
    IF Len(records) <= max_history_length THEN records
    ELSE SubSeq(records, 1, max_history_length)

\* SpeechHistoryTracker._cleanup_old_records: beyond max_history_length the
\* oldest records are removed
cleanup_old_records(records) ==
    IF Len(records) <= max_history_length THEN records
    ELSE LET records_to_remove == Len(records) - max_history_length
         IN  SubSeq(records, records_to_remove + 1, Len(records))

\* SpeechHistoryTracker.record_speech: append, then trim
record_speech(records, speech_record) ==
    cleanup_old_records(Append(records, speech_record))

\* the legacy entry record_day_speech appends to day_speeches[current_round]
LegacySpeech(player_id, speech, speaking_order) ==
    [player |-> player_id, name |-> player_name(player_id), speech |-> speech,
     speaking_order |-> speaking_order, round |-> current_round,
     phase |-> "day_discussion"]

\* day_speeches after the append to the list of the current round
day_speeches_append(speeches, round_num, entry) ==
    [r \in DOMAIN speeches \cup {round_num} |->
        IF r = round_num
        THEN Append(IF r \in DOMAIN speeches THEN speeches[r] ELSE <<>>, entry)
        ELSE speeches[r]]

\* GameState.record_day_speech
RecordDaySpeech ==
    /\ pc = "context"
    /\ Len(trace) < MaxCalls
    /\ \E player_id \in CallIds, speech \in Speeches, speaking_order \in {0, 1} :
          IF ~player_exists(player_id)
          THEN /\ call_result' = "False"
               /\ UNCHANGED <<speech_records, day_speeches>>
          ELSE /\ speech_records' =
                     record_speech(speech_records,
                                   SpeechRecord(player_id, speech, current_round,
                                                speaking_order))
               /\ day_speeches' =
                     day_speeches_append(day_speeches, current_round,
                                         LegacySpeech(player_id, speech,
                                                      speaking_order))
               /\ call_result' = "True"
    /\ trace' = Append(trace, "record_day_speech")
    /\ UNCHANGED <<players_config, gameStateVars, last_words_context, localVars,
                   pc, night_pre, wolf_step, day_step,
                   seer_check_result>>

\* variant: the validation does not look at the speech
validate_last_word_entry_any_speech(last_word) ==
    /\ last_word.player > 0
    /\ last_word.name # ""

\* GameState._validate_last_word_entry (the three fields are always there)
validate_last_word_entry(last_word) ==
    /\ last_word.player > 0
    /\ last_word.name # ""
    /\ last_word.speech # ""

\* GameState.add_last_words
AddLastWords ==
    /\ pc = "context"
    /\ Len(trace) < MaxCalls
    /\ \E player_id \in CallIds, speech \in Speeches :
          IF ~player_exists(player_id)
          THEN /\ call_result' = "False"
               /\ UNCHANGED last_words_context
          ELSE LET last_word_entry ==
                       [player |-> player_id, name |-> player_name(player_id),
                        speech |-> speech, round |-> current_round,
                        death_reason |-> "night", is_last_words |-> TRUE]
               IN  IF validate_last_word_entry(last_word_entry)
                   THEN /\ last_words_context' =
                               Append(last_words_context, last_word_entry)
                        /\ call_result' = "True"
                   ELSE /\ call_result' = "False"
                        /\ UNCHANGED last_words_context
    /\ trace' = Append(trace, "add_last_words")
    /\ UNCHANGED <<players_config, gameStateVars, speech_records, day_speeches,
                   localVars, pc, night_pre, wolf_step, day_step,
                   seer_check_result>>

\* the speeches of n earlier record_day_speech calls of round 1, the players
\* speaking in turn
EarlierSpeeches(n) ==
    [i \in 1..n |-> SpeechRecord(((i - 1) % Len(TestRoster)) + 1, "x", 1, i)]

EarlierLegacy(n) ==
    [i \in 1..n |->
        [player |-> ((i - 1) % Len(TestRoster)) + 1,
         name |-> player_name(((i - 1) % Len(TestRoster)) + 1), speech |-> "x",
         speaking_order |-> i, round |-> 1, phase |-> "day_discussion"]]

\* a GameState built by create_test_game, in round 1: fresh, or with the
\* speech log one record short of max_history_length
InitSpeech ==
    /\ players_config = <<>>
    /\ role = TestRoster
    /\ team = [i \in DOMAIN TestRoster |-> team_of(TestRoster[i])]
    /\ status = [i \in DOMAIN TestRoster |-> ALIVE]
    /\ witch_potions = [i \in DOMAIN TestRoster |->
                            [heal |-> TRUE, poison |-> TRUE]]
    /\ hunter_can_shoot = [i \in DOMAIN TestRoster |-> TRUE]
    /\ seer_checks = [i \in DOMAIN TestRoster |-> <<>>]
    /\ current_round = 1
    /\ phase = "setup"
    /\ vote_records = <<>>
    /\ wolf_kill_target = None
    /\ witch_heal_used = FALSE
    /\ witch_poison_used = FALSE
    /\ deaths_this_night = <<>>
    /\ \E n \in {0, max_history_length - 1} :
          /\ speech_records = EarlierSpeeches(n)
          /\ day_speeches = IF n = 0 THEN <<>>
                            ELSE [r \in {1} |-> EarlierLegacy(n)]
    /\ last_words_context = <<>>
    /\ call_result = "none"
    /\ seer_check_result = None
    /\ InitLocals
    /\ pc = "context"

\* GameState.kill_player called on the GameState: a living player is
\* killed and True returned, otherwise False is returned
KillPlayer ==
    /\ pc = "context"
    /\ Len(trace) < MaxCalls
    /\ \E player_id \in CallIds :
          IF player_exists(player_id) /\ is_alive(player_id)
          THEN /\ status' = kill_players(status, <<player_id>>)
               /\ call_result' = "True"
          ELSE /\ call_result' = "False"
               /\ UNCHANGED status
    /\ trace' = Append(trace, "kill_player")
    /\ UNCHANGED <<players_config, role, team, witch_potions, hunter_can_shoot,
                   seer_checks, current_round, phase, vote_records, scratchVars,
                   speech_records, day_speeches, last_words_context, localVars,
                   pc, night_pre, wolf_step, day_step,
                   seer_check_result>>

NextSpeech == RecordDaySpeech \/ AddLastWords \/ KillPlayer

SpecSpeech == InitSpeech /\ [][NextSpeech]_vars

\* ---------------------------------------------------------------- C31
IsPrefix(s, t) == Len(s) <= Len(t) /\ SubSeq(t, 1, Len(s)) = s

\* the most recent n elements of s (all of s when it has fewer)
LastOf(s, n) == IF Len(s) <= n THEN s ELSE SubSeq(s, Len(s) - n + 1, Len(s))

LastWordsCalled ==
    /\ pc = "context"
    /\ trace' # trace
    /\ trace'[Len(trace')] = "add_last_words"

\* C32: add_last_words returns True only when it has appended one entry, of
\* an existing player and with a non-empty speech, to the last-words buffer;
\* otherwise (unknown player id, empty speech) it returns False and the
\* buffer is as it was
C32_LastWordsValidated ==
    [][LastWordsCalled
       => IF call_result' = "True"
          THEN /\ Len(last_words_context') = Len(last_words_context) + 1
               /\ IsPrefix(last_words_context, last_words_context')
               /\ LET added == last_words_context'[Len(last_words_context')]
                  IN  /\ player_exists(added.player)
                      /\ added.speech # ""
          ELSE /\ call_result' = "False"
               /\ last_words_context' = last_words_context]_vars

\* the three calls of test_game_state_validation in some order: one entry
\* stored, the last call refused
C32_Witness ==
    /\ pc = "context"
    /\ Len(trace) = 3
    /\ \A i \in DOMAIN trace : trace[i] = "add_last_words"
    /\ Len(last_words_context) = 1
    /\ last_words_context[1].player = 1
    /\ call_result = "False"

\* ------------------------------- the werewolf step, one make_night_action at a time
\* context_data of _werewolf_phase: _get_wolf_context of the first wolf and
\* the update with game_state and wolf_team, built once before the loop
wolf_context_data ==
    [round |-> current_round, phase |-> phase,
     wolf_team |-> get_alive_wolf_players,
     available_targets |-> available_targets,
     alive_players |-> get_alive_players,
     all_players |-> status]

\* variant: a wolf is also shown the answers collected before its turn
wolf_call_context_with_answers(context_data, actions) ==
    [context_data |-> context_data, answers |-> actions]

\* what wolf.make_night_action is called with: context_data, whatever the
\* wolves asked earlier have answered
wolf_call_context(context_data, actions) ==
    [context_data |-> context_data, answers |-> <<>>]

\* _werewolf_phase up to the loop: the living wolves and context_data
WolfGatherBegin ==
    /\ pc = "werewolf"
    /\ IF get_alive_wolf_players = <<>>
       THEN /\ pc' = "witch"
            /\ UNCHANGED wolf_step
       ELSE /\ pc' = "wolf_ask"
            /\ wolf_step' = [wolves |-> get_alive_wolf_players,
                             context_data |-> wolf_context_data,
                             inputs |-> <<>>, actions |-> <<>>]
    /\ UNCHANGED <<players_config, contextVars>>
    /\ UNCHANGED <<gameStateVars, localVars, night_pre, day_step, trace>>

\* one turn of the loop: the next wolf's make_night_action is called
WolfGatherAsk ==
    /\ pc = "wolf_ask"
    /\ Len(wolf_step.actions) < Len(wolf_step.wolves)
    /\ \E input \in WolfActions :
          wolf_step' =
             [wolf_step EXCEPT
                 !.inputs = Append(@, wolf_call_context(wolf_step.context_data,
                                                        wolf_step.actions)),
                 !.actions = Append(@, wolf_make_night_action(MockLLMPlayer,
                                                              input))]
    /\ pc' = "wolf_ask"
    /\ UNCHANGED <<players_config, contextVars>>
    /\ UNCHANGED <<gameStateVars, localVars, night_pre, day_step, trace>>

\* after the loop: the tally, random.choice, and the assignment of
\* wolf_kill_target in execute_night_phase
WolfGatherReduce ==
    /\ pc = "wolf_ask"
    /\ Len(wolf_step.actions) = Len(wolf_step.wolves)
    /\ \E proposals \in {[w \in Range(wolf_step.wolves) |->
                            wolf_step.actions[RankIn(Range(wolf_step.wolves),
                                                      w)]]} :
       \E targets \in {wolf_final_targets(proposals)} :
          IF targets = {}
          THEN UNCHANGED <<night_events, wolf_kill_target>>
          ELSE \E final_target \in targets :
                 /\ night_events' = Append(night_events,
                       [type |-> "wolf_kill", player |-> None,
                        target |-> final_target])
                 /\ wolf_kill_target' = final_target
    /\ pc' = "witch"
    /\ UNCHANGED <<players_config, contextVars>>
    /\ UNCHANGED <<playerVars, current_round, vote_records, phase,
                   witch_heal_used, witch_poison_used, deaths_this_night,
                   witch_action, night_results, day_results, victory_check,
                   second_check, game_result, night_pre, wolf_step, day_step,
                   trace>>

\* a GameState built by hand on PackRoster with four or two living wolves;
\* _werewolf_phase is called on it
InitGather ==
    /\ players_config = <<>>
    /\ InitContext
    /\ role = PackRoster
    /\ team = [i \in DOMAIN PackRoster |-> team_of(PackRoster[i])]
    /\ status \in {[p \in DOMAIN PackRoster |->
                        IF p \in {1, 8} THEN DEAD ELSE ALIVE],
                    [p \in DOMAIN PackRoster |->
                        IF p \in {5, 6, 8} THEN DEAD ELSE ALIVE],
                    [p \in DOMAIN PackRoster |->
                        IF PackRoster[p] = WEREWOLF THEN DEAD ELSE ALIVE]}
    /\ witch_potions = [i \in DOMAIN PackRoster |->
                            [heal |-> TRUE, poison |-> TRUE]]
    /\ hunter_can_shoot = [i \in DOMAIN PackRoster |-> TRUE]
    /\ seer_checks = [i \in DOMAIN PackRoster |-> <<>>]
    /\ current_round = 1
    /\ phase = "night"
    /\ vote_records = <<>>
    /\ wolf_kill_target = None
    /\ witch_heal_used = FALSE
    /\ witch_poison_used = FALSE
    /\ deaths_this_night = <<>>
    /\ InitLocals
    /\ pc = "werewolf"

NextGather == WolfGatherBegin \/ WolfGatherAsk \/ WolfGatherReduce

SpecGather == InitGather /\ [][NextGather]_vars

\* ---------------------------------------------------------------- C33
\* C33: the werewolf step is a gather-then-reduce barrier. While a living
\* wolf's proposal is still outstanding no field of GameState changes, the
\* kill target is written only when every living wolf has been asked, and
\* every wolf is asked with the same context_data, built from the GameState
\* before the first proposal, with no other wolf's proposal in it
C33_GatherThenReduce ==
    /\ [][(pc = "wolf_ask"
             /\ Len(wolf_step.actions) < Len(wolf_step.wolves))
          => UNCHANGED gameStateVars]_vars
    /\ [][(pc \in {"werewolf", "wolf_ask"}
             /\ gameStateVars' # gameStateVars)
          => /\ Len(wolf_step.actions) = Len(wolf_step.wolves)
             /\ wolf_step.wolves = get_alive_wolf_players
             /\ pc' = "witch"]_vars
    /\ [](pc \in {"wolf_ask", "witch"} /\ wolf_step # NoWolfStep
          => /\ Len(wolf_step.inputs) = Len(wolf_step.actions)
             /\ \A k \in DOMAIN wolf_step.inputs :
                   /\ wolf_step.inputs[k].context_data
                         = wolf_step.context_data
                   /\ wolf_step.inputs[k].answers = <<>>)

\* four wolves have been asked in turn, at least two of them proposed a
\* target, and the kill target has been written
C33_Witness ==
    /\ pc = "witch"
    /\ wolf_step # NoWolfStep
    /\ Len(wolf_step.actions) = 4
    /\ wolf_step.actions[1].action = "kill"
    /\ wolf_step.actions[2].action = "kill"
    /\ wolf_step.actions[1].target # wolf_step.actions[2].target
    /\ wolf_kill_target # None

\* ---------------------------------------------------------------- C34
\* C34: a kill_player call for a player who is dead or does not exist (a
\* call that kills nobody) is a fatal error: the run is aborted
C34_KillOfDeadAborts ==
    [][(pc = "context" /\ trace' # trace
          /\ trace'[Len(trace')] = "kill_player"
          /\ status' = status)
       => pc' = "aborted"]_vars

\* ---------------------------------------------------------------- C35
\* C35: when a night has been entered and no role has acted yet, the
\* scratchpad is clear: no wolf-kill target, no seer check result, the
\* heal-used and poison-used markers false, the night death list and the
\* night events empty, whatever the night before left in them
C35_ScratchpadClearedAtNightStart ==
    pc = "seer"
       => /\ wolf_kill_target = None
          /\ seer_check_result = None
          /\ witch_heal_used = FALSE
          /\ witch_poison_used = FALSE
          /\ deaths_this_night = <<>>
          /\ night_events = <<>>
          /\ witch_action = NoAction

\* the second night has been entered and cleared after a night in which the
\* witch used a potion (the marker of that night was set) and after which
\* somebody is dead
C35_Witness ==
    /\ pc = "seer"
    /\ current_round = 2
    /\ \E w \in DOMAIN role :
          /\ role[w] = WITCH
          /\ ~witch_potions[w].heal \/ ~witch_potions[w].poison
    /\ \E p \in DOMAIN status : status[p] = DEAD
    /\ wolf_kill_target = None
    /\ ~witch_heal_used /\ ~witch_poison_used

\* ---------------------------------------------------------------- C36
\* C36: the stalemate branch of the victory check never decides a game.
\* Whenever the witch is dead, both potions are used and one werewolf and
\* one village-team player are alive, the check returns the werewolf win of
\* the parity rule; the stalemate reason is never returned
C36_StalemateNeverReturned ==
    pc \in {"second_check", "checked_twice"} =>
        /\ victory_check.reason # "witch exhausted 1v1"
        /\ WitchExhausted1v1 =>
              /\ victory_check.game_over
              /\ victory_check.winner = "werewolves"
              /\ victory_check.reason = "werewolves >= villagers"

\* the check was made on a state that satisfies the stalemate condition
C36_Witness ==
    /\ pc = "second_check"
    /\ WitchExhausted1v1
    /\ current_round < max_rounds
    /\ victory_check.reason = "werewolves >= villagers"

\* --------------------------------------- start_game on a roster in another order
\* a valid roster of ten: the sample roster with the hunter in the place of
\* the seer, so that the replies can name the hunter
ShuffledConfig ==
    <<WEREWOLF, WEREWOLF, WEREWOLF, HUNTER, WITCH, SEER,
      VILLAGER, VILLAGER, VILLAGER, VILLAGER>>

\* a GameManager as constructed, the round counter of its GameState left at
\* 0 or set by hand two rounds below max_rounds; setup_game is called with
\* the shuffled roster and then start_game
InitGame ==
    /\ players_config = Complete(ShuffledConfig)
    /\ role = <<>>
    /\ team = <<>>
    /\ status = <<>>
    /\ witch_potions = <<>>
    /\ hunter_can_shoot = <<>>
    /\ seer_checks = <<>>
    /\ current_round \in {0, max_rounds - 2}
    /\ phase = "setup"
    /\ vote_records = <<>>
    /\ wolf_kill_target = None
    /\ witch_heal_used = FALSE
    /\ witch_poison_used = FALSE
    /\ deaths_this_night = <<>>
    /\ InitContext
    /\ InitLocals
    /\ pc = "setup"

SpecGame == InitGame /\ [][Next]_vars

\* ---------------------------------------------------------------- C37
\* C37: in a game set up from a valid roster of ten somebody is always
\* alive. A night kills at most two players and a day kills at most two,
\* and a night or a day is only entered with at least one werewolf alive
\* and more living village-team players than living werewolves
C37_SomebodyAlive ==
    pc \notin {"setup", "setup_failed"} =>
        /\ Len(role) = RosterSize
        /\ LivingWolves + LivingVillage >= 1
        /\ Len(night_results.deaths) <= 2
        /\ Len(day_results.day_deaths) <= 2
        /\ pc \in {"night_clear", "day"} =>
              /\ LivingWolves >= 1
              /\ LivingVillage > LivingWolves

\* a night has killed two players after at least two earlier deaths, and
\* somebody is alive
C37_Witness ==
    /\ pc = "check_night"
    /\ Len(night_results.deaths) = 2
    /\ LivingWolves + LivingVillage <= RosterSize - 4
    /\ LivingWolves + LivingVillage >= 1

\* ---------------------------------------------------------------- C38
\* a day has just been run and the hunter was asked for a shot in it
HunterShotTaken ==
    /\ pc = "day"
    /\ pc' # "day"
    /\ day_results'.hunter_shot.type = "hunter_shot"

C39_RoundLimit ==
    /\ [](current_round <= max_rounds)
    /\ [](pc = "day" => current_round < max_rounds)
    /\ [][(pc = "check_night" /\ current_round = max_rounds)
          => /\ pc' = "end_game"
             /\ victory_check'.game_over
             /\ victory_check'.winner =
                   IF LivingWolves = 0 THEN "villagers"
                   ELSE IF LivingWolves >= LivingVillage THEN "werewolves"
                   ELSE "draw"]_vars

\* the game has been ended as a draw by the check after the night of round
\* max_rounds
C39_Witness ==
    /\ pc = "ended"
    /\ current_round = max_rounds
    /\ game_result.winner = "draw"
    /\ game_result.phase = "night"
    /\ LivingWolves >= 1
    /\ LivingVillage > LivingWolves

====
